---- MODULE Spec2Model ----
(***************************************************************************)
(* Query routing and multi-agent coordination of the customer-service      *)
(* system: the RouterAgent (intent classifier, dispatcher, workflow        *)
(* strategies, coordination log), the CustomerDataAgent and SupportAgent   *)
(* behind it, and the MCPServer / CustomerDatabase the data agent uses.    *)
(*                                                                         *)
(* Queries and texts are strings, searched and built as the Python code    *)
(* searches and builds them.  Three characters of the source's texts are   *)
(* outside the character set of TLA+ strings and are written "[ok]" (the   *)
(* check mark), "*" (the bullet) and "->" (the arrow).                     *)
(***************************************************************************)
EXTENDS Integers, Sequences, FiniteSets, TLC

VARIABLES
    query,              \* the raw query handed to process_query / analyze_query
    analysis,           \* the analysis analyze_query returned (<<>> before)
    pc,                 \* position of the router: "idle", "waiting", "replied"
    frame,              \* locals of the strategy that is running
    inflight,           \* requests issued to a provider and not yet answered
    reply,              \* the provider's responses not yet consumed by the router,
                        \* each with what the provider's try block raised
    outcome,            \* how the last call ended: "none", "returned", "raised"
    response,           \* the text it returned (or the exception it raised)
    coordination_log,   \* RouterAgent.coordination_log
    clock,              \* the time stamps datetime.now() has handed out
    customers,          \* table customers, in row order
    tickets,            \* table tickets, in row order
    dispatches,         \* history: the dispatches of the current process_query call (of
                        \* the session, when the caller dispatches directly), with responses
    completed,          \* history: dispatches completed since the log was cleared
    calls,              \* history: the completed calls, oldest first
    faults,             \* history: provider faults injected so far
    lastCall,           \* history: the last operation of the router's surface
    threads             \* the callers that share the router without synchronisation,
                        \* each with the locals of its process_query call (<<>> when
                        \* there is one caller, whose call is in the variables above)

vars == <<query, analysis, pc, frame, inflight, reply, outcome, response,
          coordination_log, clock, customers, tickets, dispatches, completed,
          calls, faults, lastCall, threads>>

-----------------------------------------------------------------------------
(* Python values *)

\* Optional[int]: None is the empty tuple, n is <<n>>.
None == <<>>

Some(n) == <<n>>

\* As Truthy, but only None is falsy.
Truthy_unless_none(x) == x # None

\* Truth value of an Optional[int] in `if x:` (None and 0 are false).
Truthy(x) == x # None /\ x[1] # 0

\* s[i] as a one-character string, "" outside the string.
Ch(s, i) == IF 1 <= i /\ i <= Len(s) THEN SubSeq(s, i, i) ELSE ""

\* `k in s` on strings.
In(k, s) == \E i \in 1..(Len(s) - Len(k) + 1) : SubSeq(s, i, i + Len(k) - 1) = k

\* any(k in s for k in keywords)
AnyIn(keywords, s) == \E k \in keywords : In(k, s)

\* s starts with k at position i.
LitAt(k, s, i) == i >= 1 /\ i + Len(k) - 1 <= Len(s) /\ SubSeq(s, i, i + Len(k) - 1) = k

LowerChar(c) ==
    CASE c = "A" -> "a" [] c = "B" -> "b" [] c = "C" -> "c" [] c = "D" -> "d"
      [] c = "E" -> "e" [] c = "F" -> "f" [] c = "G" -> "g" [] c = "H" -> "h"
      [] c = "I" -> "i" [] c = "J" -> "j" [] c = "K" -> "k" [] c = "L" -> "l"
      [] c = "M" -> "m" [] c = "N" -> "n" [] c = "O" -> "o" [] c = "P" -> "p"
      [] c = "Q" -> "q" [] c = "R" -> "r" [] c = "S" -> "s" [] c = "T" -> "t"
      [] c = "U" -> "u" [] c = "V" -> "v" [] c = "W" -> "w" [] c = "X" -> "x"
      [] c = "Y" -> "y" [] c = "Z" -> "z" [] OTHER -> c

UpperChar(c) ==
    CASE c = "a" -> "A" [] c = "b" -> "B" [] c = "c" -> "C" [] c = "d" -> "D"
      [] c = "e" -> "E" [] c = "f" -> "F" [] c = "g" -> "G" [] c = "h" -> "H"
      [] c = "i" -> "I" [] c = "j" -> "J" [] c = "k" -> "K" [] c = "l" -> "L"
      [] c = "m" -> "M" [] c = "n" -> "N" [] c = "o" -> "O" [] c = "p" -> "P"
      [] c = "q" -> "Q" [] c = "r" -> "R" [] c = "s" -> "S" [] c = "t" -> "T"
      [] c = "u" -> "U" [] c = "v" -> "V" [] c = "w" -> "W" [] c = "x" -> "X"
      [] c = "y" -> "Y" [] c = "z" -> "Z" [] OTHER -> c

RECURSIVE lower(_)
\* str.lower()
lower(s) == IF s = "" THEN "" ELSE LowerChar(Ch(s, 1)) \o lower(SubSeq(s, 2, Len(s)))

RECURSIVE upper(_)
\* str.upper()
upper(s) == IF s = "" THEN "" ELSE UpperChar(Ch(s, 1)) \o upper(SubSeq(s, 2, Len(s)))

Digits == {"0", "1", "2", "3", "4", "5", "6", "7", "8", "9"}

\* \d
IsDigit(c) == c \in Digits

\* \s
IsSpace(c) == c \in {" ", "\t", "\n", "\r"}

\* \w
IsWord(c) ==
    \/ IsDigit(c)
    \/ c = "_"
    \/ LowerChar(c) \in {"a", "b", "c", "d", "e", "f", "g", "h", "i", "j", "k", "l", "m",
                         "n", "o", "p", "q", "r", "s", "t", "u", "v", "w", "x", "y", "z"}

RECURSIVE SkipSpaces(_, _)
\* \s* from position i: the first position that holds no white space.
SkipSpaces(s, i) == IF IsSpace(Ch(s, i)) THEN SkipSpaces(s, i + 1) ELSE i

RECURSIVE DigitsEnd(_, _)
\* \d* from position i: the position after the longest run of digits.
DigitsEnd(s, i) == IF IsDigit(Ch(s, i)) THEN DigitsEnd(s, i + 1) ELSE i

DigitValue(c) ==
    CASE c = "0" -> 0 [] c = "1" -> 1 [] c = "2" -> 2 [] c = "3" -> 3 [] c = "4" -> 4
      [] c = "5" -> 5 [] c = "6" -> 6 [] c = "7" -> 7 [] c = "8" -> 8 [] c = "9" -> 9

RECURSIVE int(_)
\* int(s) for a string of digits.
int(s) == IF s = "" THEN 0
          ELSE 10 * int(SubSeq(s, 1, Len(s) - 1)) + DigitValue(Ch(s, Len(s)))

\* The capture (\d+) at position i: <<digits>>, or None when no digit is there.
Capture(s, i) == IF IsDigit(Ch(s, i)) THEN <<SubSeq(s, i, DigitsEnd(s, i) - 1)>> ELSE None

\* re.search: the match at the leftmost position where the pattern matches.
Search(MatchAt(_, _), s) ==
    LET hits == {i \in 1..Len(s) : MatchAt(s, i) # None}
    IN  IF hits = {} THEN None
        ELSE MatchAt(s, CHOOSE i \in hits : \A j \in hits : i <= j)

-----------------------------------------------------------------------------
(* RouterAgent.extract_customer_id *)

\* \s*:?\s* from position i
ColonGap(s, i) ==
    LET j == SkipSpaces(s, i)
    IN  IF Ch(s, j) = ":" THEN SkipSpaces(s, j + 1) ELSE j

\* r'customer\s+id\s*:?\s*(\d+)'
PatCustomerId(s, i) ==
    IF LitAt("customer", s, i) /\ IsSpace(Ch(s, i + 8))
       /\ LitAt("id", s, SkipSpaces(s, i + 8))
    THEN Capture(s, ColonGap(s, SkipSpaces(s, i + 8) + 2))
    ELSE None

\* r'id\s*:?\s*(\d+)'
PatId(s, i) == IF LitAt("id", s, i) THEN Capture(s, ColonGap(s, i + 2)) ELSE None

\* r'customer\s+(\d+)'
PatCustomer(s, i) ==
    IF LitAt("customer", s, i) /\ IsSpace(Ch(s, i + 8))
    THEN Capture(s, SkipSpaces(s, i + 8))
    ELSE None

\* r'\bI\'m\s+customer\s+(\d+)'
PatImCustomer(s, i) ==
    IF LitAt("I'm", s, i) /\ ~IsWord(Ch(s, i - 1)) /\ IsSpace(Ch(s, i + 3))
    THEN PatCustomer(s, SkipSpaces(s, i + 3))
    ELSE None

\* As patterns, but "customer N" is tried first.
patterns_customer_first(s) == << Search(PatCustomer, s), Search(PatCustomerId, s),
                                 Search(PatId, s), Search(PatImCustomer, s) >>

\* The patterns in the order the loop tries them.
patterns(s) == << Search(PatCustomerId, s), Search(PatId, s),
                  Search(PatCustomer, s), Search(PatImCustomer, s) >>

extract_customer_id(q) ==
    LET found == patterns(lower(q))
        hits  == {p \in 1..Len(found) : found[p] # None}
    IN  IF hits = {} THEN None
        ELSE Some(int(found[CHOOSE p \in hits : \A r \in hits : p <= r][1]))

-----------------------------------------------------------------------------
(* Capability detection: CustomerDataAgent.can_handle, SupportAgent.can_handle *)

DataKeywords ==
    {"customer", "account", "profile", "information", "data", "email", "phone",
     "status", "update", "get", "fetch", "retrieve"}

SupportKeywords ==
    {"help", "support", "issue", "problem", "ticket", "upgrade", "cancel", "billing",
     "refund", "assistance", "question", "how to", "can't", "cannot", "error"}

data_can_handle(task) == AnyIn(DataKeywords, lower(task))

support_can_handle(task) == AnyIn(SupportKeywords, lower(task))

-----------------------------------------------------------------------------
(* RouterAgent.analyze_query *)

ListingKeywords == {"all", "list", "show me", "get all"}

SequencingKeywords == {"and", "also", "then", "after"}

\* The analysis before the complexity is decided: the customer id and the
\* agents whose can_handle accepts the query, in the order they are appended.
detect_agents(q) ==
    LET d == data_can_handle(q)
        s == support_can_handle(q)
    IN  [ query              |-> q,
          customer_id        |-> extract_customer_id(q),
          needs_data_agent   |-> d,
          needs_support_agent |-> s,
          needs_coordination |-> FALSE,
          complexity         |-> "simple",
          intents            |-> (IF d THEN <<"data">> ELSE <<>>)
                                 \o (IF s THEN <<"support">> ELSE <<>>) ]

\* As complexity_first, but the general rules are tried before the specific one.
complexity_first_general_first(a, ql) ==
    IF Len(a.intents) > 1
    THEN [a EXCEPT !.complexity = "complex", !.needs_coordination = TRUE]
    ELSE IF AnyIn(ListingKeywords, ql)
    THEN [a EXCEPT !.complexity = "complex", !.needs_coordination = TRUE]
    ELSE IF In("active customers", ql) /\ In("tickets", ql)
    THEN [a EXCEPT !.complexity = "multi-step", !.needs_coordination = TRUE]
    ELSE a

\* As complexity_first, but the listing rule leaves needs_coordination as it
\* is.
complexity_first_listing_uncoordinated(a, ql) ==
    IF In("active customers", ql) /\ In("tickets", ql)
    THEN [a EXCEPT !.complexity = "multi-step", !.needs_coordination = TRUE]
    ELSE IF Len(a.intents) > 1
    THEN [a EXCEPT !.complexity = "complex", !.needs_coordination = TRUE]
    ELSE IF AnyIn(ListingKeywords, ql)
    THEN [a EXCEPT !.complexity = "complex"]
    ELSE a

\* First if/elif chain: the specific pattern, then the general ones.
complexity_first(a, ql) ==
    IF In("active customers", ql) /\ In("tickets", ql)
    THEN [a EXCEPT !.complexity = "multi-step", !.needs_coordination = TRUE]
    ELSE IF Len(a.intents) > 1
    THEN [a EXCEPT !.complexity = "complex", !.needs_coordination = TRUE]
    ELSE IF AnyIn(ListingKeywords, ql)
    THEN [a EXCEPT !.complexity = "complex", !.needs_coordination = TRUE]
    ELSE a

\* As complexity_second, but the chain is an elif continuation of the first one:
\* it runs only when no rule of the first chain fired.
complexity_second_elif(a, ql) ==
    IF a.needs_coordination THEN a
    ELSE IF AnyIn(SequencingKeywords, ql)
    THEN [a EXCEPT !.complexity = "multi-step", !.needs_coordination = TRUE]
    ELSE IF (In("update", ql) \/ In("change", ql)) /\ (In("email", ql) \/ In("phone", ql))
    THEN [a EXCEPT !.complexity = "multi-step", !.needs_coordination = TRUE]
    ELSE IF (In("status", ql) \/ In("what is", ql)) /\ In("ticket", ql) /\ In("priority", ql)
    THEN [a EXCEPT !.complexity = "multi-step", !.needs_coordination = TRUE,
                   !.intents = <<"data", "support">>]
    ELSE a

\* As complexity_second, but the analytical rule leaves the intents as the
\* keyword checks made them.
complexity_second_keeping_intents(a, ql) ==
    IF AnyIn(SequencingKeywords, ql)
    THEN [a EXCEPT !.complexity = "multi-step", !.needs_coordination = TRUE]
    ELSE IF (In("update", ql) \/ In("change", ql)) /\ (In("email", ql) \/ In("phone", ql))
    THEN [a EXCEPT !.complexity = "multi-step", !.needs_coordination = TRUE]
    ELSE IF (In("status", ql) \/ In("what is", ql)) /\ In("ticket", ql) /\ In("priority", ql)
    THEN [a EXCEPT !.complexity = "multi-step", !.needs_coordination = TRUE]
    ELSE a

\* Second if/elif chain, evaluated whatever the first one decided.
complexity_second(a, ql) ==
    IF AnyIn(SequencingKeywords, ql)
    THEN [a EXCEPT !.complexity = "multi-step", !.needs_coordination = TRUE]
    ELSE IF (In("update", ql) \/ In("change", ql)) /\ (In("email", ql) \/ In("phone", ql))
    THEN [a EXCEPT !.complexity = "multi-step", !.needs_coordination = TRUE]
    ELSE IF (In("status", ql) \/ In("what is", ql)) /\ In("ticket", ql) /\ In("priority", ql)
    THEN [a EXCEPT !.complexity = "multi-step", !.needs_coordination = TRUE,
                   !.intents = a.intents
                       \o (IF \E i \in 1..Len(a.intents) : a.intents[i] = "data"
                           THEN <<>> ELSE <<"data">>)
                       \o (IF \E i \in 1..Len(a.intents) : a.intents[i] = "support"
                           THEN <<>> ELSE <<"support">>)]
    ELSE a

analyze_query(q) == complexity_second(complexity_first(detect_agents(q), lower(q)), lower(q))

-----------------------------------------------------------------------------
(* Calls that return a value or raise *)

Ok(v) == [ok |-> TRUE, value |-> v]

Raised(type, message) == [ok |-> FALSE, exc |-> type, message |-> message]

\* d.get(key, default) on a record
Get(d, key, default) == IF key \in DOMAIN d THEN d[key] ELSE default

\* [e for e in seq if P(e)], in order.
Filter(seq, P(_)) == SelectSeq(seq, P)

\* seq[:n]
Take(seq, n) == SubSeq(seq, 1, IF Len(seq) < n THEN Len(seq) ELSE n)

RECURSIVE Join(_, _)
\* sep.join(seq)
Join(seq, sep) ==
    IF seq = <<>> THEN ""
    ELSE IF Len(seq) = 1 THEN seq[1]
    ELSE seq[1] \o sep \o Join(SubSeq(seq, 2, Len(seq)), sep)

RECURSIVE strip(_)
\* str.strip()
strip(s) ==
    IF s # "" /\ IsSpace(Ch(s, Len(s))) THEN strip(SubSeq(s, 1, Len(s) - 1))
    ELSE IF s # "" /\ IsSpace(Ch(s, 1)) THEN strip(SubSeq(s, 2, Len(s)))
    ELSE s

-----------------------------------------------------------------------------
(* CustomerDatabase: the tables are sequences of rows in row order.  `fault` *)
(* is the database failing in this call: cursor.execute raises             *)
(* sqlite3.OperationalError.                                                *)

NoSuchTable(table) == Raised("OperationalError", "no such table: " \o table)

\* CustomerDatabase.get_customer: <<row>>, or None
db_get_customer(cs, customer_id, fault) ==
    IF fault THEN NoSuchTable("customers")
    ELSE LET rows == Filter(cs, LAMBDA c : c.id = customer_id)
         IN  Ok(IF rows = <<>> THEN None ELSE <<rows[1]>>)

\* CustomerDatabase.list_customers ("" is status None)
db_list_customers(cs, status, limit, fault) ==
    IF fault THEN NoSuchTable("customers")
    ELSE IF status # ""
         THEN Ok(Take(Filter(cs, LAMBDA c : c.status = status), limit))
         ELSE Ok(Take(cs, limit))

AllowedFields == <<"name", "email", "phone", "status">>

\* The UPDATE statement: every row with the id gets the fields of data that
\* are allowed, and the new updated_at.
UpdateRows(cs, customer_id, data, now) ==
    [ i \in 1..Len(cs) |->
        IF cs[i].id # customer_id THEN cs[i]
        ELSE [ f \in DOMAIN cs[i] |->
                 IF f = "updated_at" THEN now
                 ELSE IF f \in DOMAIN data /\ \E k \in 1..Len(AllowedFields) : AllowedFields[k] = f
                      THEN data[f]
                      ELSE cs[i][f] ] ]

\* As db_update_customer, but a row counts as updated only when a value in it
\* changed.
db_update_customer_changed_rows(cs, customer_id, data, now, fault) ==
    LET fields == Filter(AllowedFields, LAMBDA f : f \in DOMAIN data)
        after  == UpdateRows(cs, customer_id, data, now)
    IN  IF fields = <<>> THEN [value |-> FALSE, customers |-> cs]
        ELSE IF fault THEN [value |-> FALSE, customers |-> cs]
        ELSE [ value |-> \E i \in 1..Len(cs) :
                            /\ cs[i].id = customer_id
                            /\ \E f \in DOMAIN data : cs[i][f] # data[f],
               customers |-> after ]

\* As db_update_customer, but the statement counts as a success whatever
\* cursor.rowcount is.
db_update_customer_any_rowcount(cs, customer_id, data, now, fault) ==
    LET fields == Filter(AllowedFields, LAMBDA f : f \in DOMAIN data)
    IN  IF fields = <<>> THEN [value |-> FALSE, customers |-> cs]
        ELSE IF fault THEN [value |-> FALSE, customers |-> cs]
        ELSE [ value     |-> TRUE,
               customers |-> UpdateRows(cs, customer_id, data, now) ]

\* CustomerDatabase.update_customer: the boolean it returns and the table after.
\* sqlite3.Error is caught around execute and turned into False.
db_update_customer(cs, customer_id, data, now, fault) ==
    LET fields == Filter(AllowedFields, LAMBDA f : f \in DOMAIN data)
    IN  IF fields = <<>> THEN [value |-> FALSE, customers |-> cs]
        ELSE IF fault THEN [value |-> FALSE, customers |-> cs]
        ELSE [ value     |-> \E i \in 1..Len(cs) : cs[i].id = customer_id,
               customers |-> UpdateRows(cs, customer_id, data, now) ]

RECURSIVE OrderByCreatedDesc(_)
\* The rows of ts in the order ORDER BY created_at DESC gives them; rows with
\* equal created_at stay in row order.
OrderByCreatedDesc(ts) ==
    IF ts = <<>> THEN <<>>
    ELSE LET m == CHOOSE i \in 1..Len(ts) :
                    /\ \A j \in 1..Len(ts) : ts[j].created_at <= ts[i].created_at
                    /\ \A j \in 1..(i - 1) : ts[j].created_at < ts[i].created_at
         IN  <<ts[m]>> \o OrderByCreatedDesc(SubSeq(ts, 1, m - 1) \o SubSeq(ts, m + 1, Len(ts)))

\* CustomerDatabase.get_customer_history
db_get_customer_history(ts, customer_id, fault) ==
    IF fault THEN NoSuchTable("tickets")
    ELSE Ok(OrderByCreatedDesc(Filter(ts, LAMBDA t : t.customer_id = customer_id)))

\* CustomerDatabase.create_ticket: the new ticket id (None when the customer
\* does not exist) and the table after.  The SELECT that verifies the customer
\* is outside the try.
db_create_ticket(cs, ts, customer_id, issue, priority, now, fault) ==
    IF fault THEN [r |-> NoSuchTable("customers"), tickets |-> ts]
    ELSE IF ~\E i \in 1..Len(cs) : cs[i].id = customer_id
    THEN [r |-> Ok(None), tickets |-> ts]
    ELSE LET id == Len(ts) + 1
         IN  [ r |-> Ok(Some(id)),
               tickets |-> Append(ts, [ id |-> id, customer_id |-> customer_id,
                                        issue |-> issue, status |-> "open",
                                        priority |-> priority, created_at |-> now ]) ]

-----------------------------------------------------------------------------
(* MCPServer: the tools, and call_tool around them.  A tool call gives the   *)
(* response dictionary and the tables after it.                              *)

ToolOk(result, cs, ts) ==
    [resp |-> [success |-> TRUE, result |-> result], customers |-> cs, tickets |-> ts]

ToolError(message, cs, ts) ==
    [resp |-> [success |-> FALSE, error |-> message], customers |-> cs, tickets |-> ts]

\* MCPServer.get_customer
mcp_get_customer(cs, ts, parameters, fault) ==
    LET r == db_get_customer(cs, parameters.customer_id, fault)
    IN  IF ~r.ok THEN ToolError(r.message, cs, ts)
        ELSE IF r.value # None THEN ToolOk(r.value[1], cs, ts)
        ELSE ToolError("Customer " \o ToString(parameters.customer_id) \o " not found", cs, ts)

\* MCPServer.list_customers
mcp_list_customers(cs, ts, parameters, fault) ==
    LET r == db_list_customers(cs, Get(parameters, "status", ""), Get(parameters, "limit", 10), fault)
    IN  IF r.ok THEN ToolOk(r.value, cs, ts) ELSE ToolError(r.message, cs, ts)

\* MCPServer.update_customer
\* As mcp_update_customer, but the record returned is the one read before the
\* update.
mcp_update_customer_stale(cs, ts, parameters, now, fault) ==
    LET u == db_update_customer(cs, parameters.customer_id, parameters.data, now, fault)
        r == db_get_customer(cs, parameters.customer_id, fault)
    IN  IF ~u.value
        THEN ToolError("Failed to update customer " \o ToString(parameters.customer_id),
                       u.customers, ts)
        ELSE IF ~r.ok THEN ToolError(r.message, u.customers, ts)
        ELSE ToolOk(IF r.value = None THEN None ELSE r.value[1], u.customers, ts)

mcp_update_customer(cs, ts, parameters, now, fault) ==
    LET u == db_update_customer(cs, parameters.customer_id, parameters.data, now, fault)
        r == db_get_customer(u.customers, parameters.customer_id, fault)
    IN  IF ~u.value
        THEN ToolError("Failed to update customer " \o ToString(parameters.customer_id),
                       u.customers, ts)
        ELSE IF ~r.ok THEN ToolError(r.message, u.customers, ts)
        ELSE ToolOk(IF r.value = None THEN None ELSE r.value[1], u.customers, ts)

\* MCPServer.create_ticket
mcp_create_ticket(cs, ts, parameters, now, fault) ==
    LET c == db_create_ticket(cs, ts, parameters.customer_id, parameters.issue,
                              Get(parameters, "priority", "medium"), now, fault)
    IN  IF ~c.r.ok THEN ToolError(c.r.message, cs, ts)
        ELSE IF c.r.value # None
        THEN ToolOk([ ticket_id |-> c.r.value[1], customer_id |-> parameters.customer_id,
                      issue |-> parameters.issue,
                      priority |-> Get(parameters, "priority", "medium"),
                      status |-> "open" ], cs, c.tickets)
        ELSE ToolError("Failed to create ticket for customer "
                       \o ToString(parameters.customer_id), cs, ts)

\* MCPServer.get_customer_history
mcp_get_customer_history(cs, ts, parameters, fault) ==
    LET r == db_get_customer_history(ts, parameters.customer_id, fault)
    IN  IF r.ok THEN ToolOk(r.value, cs, ts) ELSE ToolError(r.message, cs, ts)

ToolNames ==
    {"get_customer", "list_customers", "update_customer", "create_ticket",
     "get_customer_history"}

\* MCPServer.call_tool: every exception of the tool becomes success False.
call_tool(tool_name, parameters, cs, ts, now, fault) ==
    IF tool_name \notin ToolNames THEN ToolError("Unknown tool: " \o tool_name, cs, ts)
    ELSE CASE tool_name = "get_customer" -> mcp_get_customer(cs, ts, parameters, fault)
           [] tool_name = "list_customers" -> mcp_list_customers(cs, ts, parameters, fault)
           [] tool_name = "update_customer" -> mcp_update_customer(cs, ts, parameters, now, fault)
           [] tool_name = "create_ticket" -> mcp_create_ticket(cs, ts, parameters, now, fault)
           [] tool_name = "get_customer_history" ->
                  mcp_get_customer_history(cs, ts, parameters, fault)

-----------------------------------------------------------------------------
(* CustomerDataAgent *)

DataAgentName == "CustomerDataAgent"

SupportAgentName == "SupportAgent"

RouterName == "RouterAgent"

\* The methods of the agent raise ValueError with the tool's error.
OfTool(t) ==
    [ r |-> IF t.resp.success THEN Ok(t.resp.result) ELSE Raised("ValueError", t.resp.error),
      customers |-> t.customers, tickets |-> t.tickets ]

Fails(type, message, cs, ts) ==
    [r |-> Raised(type, message), customers |-> cs, tickets |-> ts]

\* As unknown_action, but the request is answered with no result.
unknown_action_ignored(action, cs, ts) == [r |-> Ok(None), customers |-> cs, tickets |-> ts]

\* The else branch of handle_request: raise ValueError(f"Unknown action: {action}")
unknown_action(action, cs, ts) == Fails("ValueError", "Unknown action: " \o action, cs, ts)

\* params[key] on a dictionary without the key
KeyError(key, cs, ts) == Fails("KeyError", "'" \o key \o "'", cs, ts)

\* CustomerDataAgent.get_customer_info
get_customer_info(customer_id, cs, ts, now, fault) ==
    OfTool(call_tool("get_customer", [customer_id |-> customer_id], cs, ts, now, fault))

\* CustomerDataAgent.list_customers
list_customers(status, limit, cs, ts, now, fault) ==
    OfTool(call_tool("list_customers",
                     IF status # "" THEN [limit |-> limit, status |-> status]
                     ELSE [limit |-> limit],
                     cs, ts, now, fault))

\* CustomerDataAgent.update_customer_info
update_customer_info(customer_id, updates, cs, ts, now, fault) ==
    OfTool(call_tool("update_customer", [customer_id |-> customer_id, data |-> updates],
                     cs, ts, now, fault))

\* CustomerDataAgent.get_customer_history
get_customer_history(customer_id, cs, ts, now, fault) ==
    OfTool(call_tool("get_customer_history", [customer_id |-> customer_id],
                     cs, ts, now, fault))

\* CustomerDataAgent.validate_customer_exists
validate_customer_exists(customer_id, cs, ts, now, fault) ==
    [get_customer_info(customer_id, cs, ts, now, fault) EXCEPT !.r = Ok(@.ok)]

PremiumLimit == 100

\* CustomerDataAgent.get_premium_customers
get_premium_customers(cs, ts, now, fault) ==
    list_customers("active", PremiumLimit, cs, ts, now, fault)

DefaultLimit == 10

\* The try block of CustomerDataAgent.handle_request.
data_action(action, params, cs, ts, now, fault) ==
    CASE action = "get_customer" ->
            IF "customer_id" \notin DOMAIN params THEN KeyError("customer_id", cs, ts)
            ELSE get_customer_info(params.customer_id, cs, ts, now, fault)
      [] action = "list_customers" ->
            list_customers(Get(params, "status", ""), Get(params, "limit", DefaultLimit),
                           cs, ts, now, fault)
      [] action = "update_customer" ->
            IF "customer_id" \notin DOMAIN params THEN KeyError("customer_id", cs, ts)
            ELSE IF "updates" \notin DOMAIN params THEN KeyError("updates", cs, ts)
            ELSE update_customer_info(params.customer_id, params.updates, cs, ts, now, fault)
      [] action = "get_history" ->
            IF "customer_id" \notin DOMAIN params THEN KeyError("customer_id", cs, ts)
            ELSE get_customer_history(params.customer_id, cs, ts, now, fault)
      [] action = "validate_customer" ->
            IF "customer_id" \notin DOMAIN params THEN KeyError("customer_id", cs, ts)
            ELSE [ validate_customer_exists(params.customer_id, cs, ts, now, fault)
                     EXCEPT !.r = Ok([exists |-> @.value]) ]
      [] action = "get_premium_customers" -> get_premium_customers(cs, ts, now, fault)
      [] OTHER -> unknown_action(action, cs, ts)

\* The response dictionaries of handle_request.
Success(agent, result) == [success |-> TRUE, agent |-> agent, result |-> result]

Failure(agent, message) == [success |-> FALSE, agent |-> agent, error |-> message]

\* As Response, but `except ValueError`: any other exception of the try block
\* leaves handle_request.
Response_except_value_error(agent, a) ==
    [ resp |-> IF a.r.ok THEN Success(agent, a.r.value)
               ELSE IF a.r.exc = "ValueError" THEN Failure(agent, a.r.message)
               ELSE a.r,
      exception |-> IF a.r.ok THEN <<>> ELSE <<a.r.exc, a.r.message>>,
      customers |-> a.customers, tickets |-> a.tickets ]

\* What handle_request returns after its try block did a: `except Exception`
\* turns whatever the block raised into success False.  `exception` keeps
\* what the block raised (<<>>: nothing), for the history of the dispatch.
Response(agent, a) ==
    [ resp |-> IF a.r.ok THEN Success(agent, a.r.value) ELSE Failure(agent, a.r.message),
      exception |-> IF a.r.ok THEN <<>> ELSE <<a.r.exc, a.r.message>>,
      customers |-> a.customers, tickets |-> a.tickets ]

\* CustomerDataAgent.handle_request
data_handle_request(request, cs, ts, now, fault) ==
    Response(DataAgentName,
             data_action(request.action, request.parameters, cs, ts, now, fault))

-----------------------------------------------------------------------------
(* SupportAgent *)

HighPriority ==
    {"urgent", "immediately", "critical", "emergency", "asap", "charged twice",
     "cannot access", "locked out", "security", "fraud", "unauthorized", "hacked"}

MediumPriority ==
    {"billing", "payment", "refund", "cancel", "upgrade", "not working", "broken",
     "error", "failed"}

\* SupportAgent.analyze_urgency
analyze_urgency(q) ==
    IF AnyIn(HighPriority, lower(q)) THEN "high"
    ELSE IF AnyIn(MediumPriority, lower(q)) THEN "medium"
    ELSE "low"

\* intent_keywords, in the order of the dictionary.
IntentKeywords ==
    << [intent |-> "billing", keywords |-> {"billing", "charged", "payment", "invoice", "refund"}],
       [intent |-> "cancellation", keywords |-> {"cancel", "unsubscribe", "stop subscription"}],
       [intent |-> "upgrade", keywords |-> {"upgrade", "premium", "tier", "plan change"}],
       [intent |-> "technical", keywords |-> {"not working", "error", "bug", "broken", "crash"}],
       [intent |-> "account", keywords |-> {"account", "profile", "password", "login", "access"}],
       [intent |-> "information", keywords |-> {"show", "get", "display", "what", "status"}] >>

\* SupportAgent.detect_multiple_intents
detect_multiple_intents(q) ==
    LET hit == SelectSeq(IntentKeywords, LAMBDA e : AnyIn(e.keywords, lower(q)))
    IN  [i \in 1..Len(hit) |-> hit[i].intent]

ContextKeywords ==
    {"my account", "my subscription", "my billing", "my profile", "customer id",
     "i am", "i'm", "upgrade my", "cancel my"}

\* SupportAgent.needs_customer_context
needs_customer_context(q) == AnyIn(ContextKeywords, lower(q))

\* SupportAgent.generate_solution
generate_solution(issue_type) ==
    CASE issue_type = "billing" ->
            "I can help you with billing issues. Let me review your account and recent transactions."
      [] issue_type = "upgrade" ->
            "I'd be happy to help you upgrade your account. Let me check your current plan and available options."
      [] issue_type = "technical" ->
            "I understand you're experiencing technical difficulties. Let me investigate this issue for you."
      [] issue_type = "cancellation" ->
            "I'm sorry to hear you want to cancel. Let me help you with that process."
      [] issue_type = "account" ->
            "I can assist you with your account. Let me pull up your information."
      [] issue_type = "password" ->
            "For password issues, I can help you reset it securely."
      [] OTHER -> "I'm here to help. Let me look into this for you."

\* SupportAgent.handle_support_query (customer_data None is the empty tuple)
handle_support_query(q, customer_data) ==
    LET priority == analyze_urgency(q)
        intents  == detect_multiple_intents(q)
        base == [ priority |-> priority,
                  intents |-> intents,
                  needs_customer_context |-> needs_customer_context(q),
                  needs_escalation |-> (Len(intents) > 1 \/ priority = "high"),
                  solution |-> IF intents # <<>> THEN generate_solution(intents[1])
                               ELSE "I'm here to help. Could you provide more details about your issue?" ]
    IN  IF customer_data # <<>>
        THEN [ priority |-> base.priority,
               intents |-> base.intents,
               needs_customer_context |-> base.needs_customer_context,
               needs_escalation |-> base.needs_escalation,
               solution |-> base.solution,
               customer_name |-> Get(customer_data, "name", None),
               customer_status |-> Get(customer_data, "status", None) ]
        ELSE base

\* SupportAgent.create_ticket ("" is priority None)
support_create_ticket(customer_id, issue, priority, cs, ts, now, fault) ==
    OfTool(call_tool("create_ticket",
                     [ customer_id |-> customer_id, issue |-> issue,
                       priority |-> IF priority = "" THEN analyze_urgency(issue)
                                    ELSE priority ],
                     cs, ts, now, fault))

\* The try block of SupportAgent.handle_request.  `fault` is the Support
\* Service failing in this call: the try block raises.
support_action(action, params, cs, ts, now, fault) ==
    IF fault THEN Fails("Exception", "Support Service unavailable", cs, ts)
    ELSE
    CASE action = "create_ticket" ->
            IF "customer_id" \notin DOMAIN params THEN KeyError("customer_id", cs, ts)
            ELSE IF "issue" \notin DOMAIN params THEN KeyError("issue", cs, ts)
            ELSE support_create_ticket(params.customer_id, params.issue,
                                       Get(params, "priority", ""), cs, ts, now, FALSE)
      [] action = "handle_query" ->
            IF "query" \notin DOMAIN params THEN KeyError("query", cs, ts)
            ELSE [ r |-> Ok(handle_support_query(params.query, Get(params, "customer_data", None))),
                   customers |-> cs, tickets |-> ts ]
      [] action = "analyze_urgency" ->
            IF "query" \notin DOMAIN params THEN KeyError("query", cs, ts)
            ELSE [ r |-> Ok([priority |-> analyze_urgency(params.query)]),
                   customers |-> cs, tickets |-> ts ]
      [] action = "detect_intents" ->
            IF "query" \notin DOMAIN params THEN KeyError("query", cs, ts)
            ELSE [ r |-> Ok([intents |-> detect_multiple_intents(params.query)]),
                   customers |-> cs, tickets |-> ts ]
      [] OTHER -> unknown_action(action, cs, ts)

\* SupportAgent.handle_request
support_handle_request(request, cs, ts, now, fault) ==
    Response(SupportAgentName,
             support_action(request.action, request.parameters, cs, ts, now, fault))

-----------------------------------------------------------------------------
(* RouterAgent: the coordination log *)

\* The entry RouterAgent.log appends, before its time stamp is taken.
Log(message) == [kind |-> "LOG", from |-> RouterName, to |-> "", message |-> message]

\* The entry RouterAgent.log_a2a_communication appends.
A2A(from_agent, to_agent, message) ==
    [kind |-> "A2A", from |-> from_agent, to |-> to_agent, message |-> message]

\* Each entry takes the time datetime.now() gives when it is appended.
Stamp(entries, now) ==
    [ i \in 1..Len(entries) |->
        [ ts |-> now + i - 1, kind |-> entries[i].kind, from |-> entries[i].from,
          to |-> entries[i].to, message |-> entries[i].message ] ]

\* As append_log, but the log holds the entries of the last call only: a
\* banner entry starts it afresh.
append_log_restarting(log, entries, now) ==
    IF Len(entries) > 2 /\ LitAt("====", entries[1].message, 1)
    THEN Stamp(entries, now)
    ELSE log \o Stamp(entries, now)

\* As append_log, but new entries are put in front of the log.
append_log_in_front(log, entries, now) == Stamp(entries, now) \o log

\* coordination_log.append(log_entry), for each entry in turn
append_log(log, entries, now) == log \o Stamp(entries, now)

\* As clear_coordination_log, but only the entries of a finished call are
\* dropped: the last entry stays.
clear_coordination_log_keep_last(log) ==
    IF log = <<>> THEN <<>> ELSE <<log[Len(log)]>>

\* RouterAgent.clear_coordination_log
clear_coordination_log(log) == <<>>

\* RouterAgent.get_coordination_log
get_coordination_log == coordination_log

-----------------------------------------------------------------------------
(* RouterAgent: what a strategy does next.  A strategy runs until it issues  *)
(* a dispatch (route_to_data_agent / route_to_support_agent), returns its    *)
(* text, or raises; `logs` are the entries it logs on the way.               *)

AgentName(to) == IF to = "data" THEN DataAgentName ELSE SupportAgentName

Request(to, action, parameters) ==
    [to |-> to, action |-> action, parameters |-> parameters, from_agent |-> RouterName]

\* The locals of a strategy between two dispatches.
Frame(strategy, label) ==
    [ strategy |-> strategy, label |-> label, results |-> <<>>, customers |-> <<>>,
      i |-> 1, collected |-> <<>>, responses |-> <<>>, priority_filter |-> "",
      value |-> "", customer |-> <<>> ]

Send(logs, request, fr) ==
    [kind |-> "send", logs |-> logs, requests |-> <<request>>, frame |-> fr]

Return(logs, text) == [kind |-> "return", logs |-> logs, text |-> text]

Raise(logs, type, message) ==
    [kind |-> "raise", logs |-> logs, exc |-> type, message |-> message]

\* Logs first, then what effect e does.
After(logs, e) == [e EXCEPT !.logs = logs \o e.logs]

-----------------------------------------------------------------------------
(* RouterAgent: the texts *)

\* As CustomerInformation, but without the status line.
CustomerInformation_without_status(customer) ==
    "Customer Information:\nName: " \o customer.name \o "\nEmail: " \o customer.email
    \o "\nPhone: " \o customer.phone

CustomerInformation(customer) ==
    "Customer Information:\n"
    \o "Name: " \o customer.name \o "\n"
    \o "Email: " \o customer.email \o "\n"
    \o "Phone: " \o customer.phone \o "\n"
    \o "Status: " \o customer.status

\* As ErrorText, but the message alone.
ErrorText_bare(resp) == resp.error

ErrorText(resp) == "Error: " \o resp.error

RECURSIVE TicketLines(_)
\* The two lines per ticket of the simple and the complex history texts.
TicketLines(ts) ==
    IF ts = <<>> THEN ""
    ELSE "  * [" \o upper(ts[1].status) \o "] " \o ts[1].issue \o "\n"
         \o "    Priority: " \o ts[1].priority \o ", Created: "
         \o ToString(ts[1].created_at) \o "\n"
         \o TicketLines(SubSeq(ts, 2, Len(ts)))

\* The text of a history response in handle_simple_query and handle_complex_query.
HistoryText(customer_id, resp) ==
    IF resp.success
    THEN IF resp.result # <<>>
         THEN strip("Ticket History for Customer " \o ToString(customer_id) \o ":\n"
                    \o TicketLines(resp.result))
         ELSE "No tickets found for customer " \o ToString(customer_id)
    ELSE ErrorText(resp)

-----------------------------------------------------------------------------
(* RouterAgent.handle_simple_query *)

\* As default_to_support, but the generic text is returned at once, without a
\* dispatch.
default_without_dispatch(q, logs) == Return(logs, "I'm here to help!")

\* "Default to support agent": no question shape matched, the whole query goes
\* to the SupportAgent.
default_to_support(q, logs) ==
    Send(logs, Request("support", "handle_query", [query |-> q]), Frame("simple", "support"))

\* As handle_simple_query, but the canned text is returned without asking any
\* agent.
handle_simple_query_without_agents(q, a) ==
    Return(<<Log("Handling simple query")>>, "I'm here to help!")

handle_simple_query(q, a) ==
    LET ql == lower(q)
        id == a.customer_id
        hello == <<Log("Handling simple query")>>
    IN  IF /\ Truthy(id) /\ AnyIn({"what is", "what's"}, ql)
           /\ AnyIn({"name", "email", "phone", "status", "information", "info"}, ql)
        THEN Send(hello, Request("data", "get_customer", [customer_id |-> id[1]]),
                  Frame("simple", "field"))
        ELSE IF /\ AnyIn({"get customer", "show me customer", "customer information"}, ql)
                /\ Truthy(id)
        THEN Send(hello, Request("data", "get_customer", [customer_id |-> id[1]]),
                  Frame("simple", "info"))
        ELSE IF (In("history", ql) \/ In("tickets", ql)) /\ Truthy(id)
        THEN Send(hello, Request("data", "get_history", [customer_id |-> id[1]]),
                  Frame("simple", "history"))
        ELSE default_to_support(q, hello)

\* handle_simple_query after the response to its dispatch.
resume_simple(fr, q, a, resp) ==
    LET ql == lower(q)
        id == a.customer_id[1]
    IN  CASE fr.label = "field" ->
               IF ~resp.success THEN Return(<<>>, ErrorText(resp))
               ELSE IF In("name", ql) /\ ~In("email", ql)
               THEN Return(<<>>, "The name of customer " \o ToString(id) \o " is "
                                 \o resp.result.name \o ".")
               ELSE IF In("email", ql)
               THEN Return(<<>>, "The email of customer " \o ToString(id) \o " is "
                                 \o resp.result.email \o ".")
               ELSE IF In("phone", ql)
               THEN Return(<<>>, "The phone of customer " \o ToString(id) \o " is "
                                 \o resp.result.phone \o ".")
               ELSE IF In("status", ql)
               THEN Return(<<>>, "Customer " \o ToString(id) \o " status is "
                                 \o resp.result.status \o ".")
               ELSE Return(<<>>, CustomerInformation(resp.result))
          [] fr.label = "info" ->
               IF resp.success THEN Return(<<>>, CustomerInformation(resp.result))
               ELSE Return(<<>>, ErrorText(resp))
          [] fr.label = "history" -> Return(<<>>, HistoryText(id, resp))
          [] fr.label = "support" ->
               IF resp.success
               THEN Return(<<>>, Get(resp.result, "solution", "I'm here to help!"))
               ELSE Return(<<>>, ErrorText(resp))

-----------------------------------------------------------------------------
(* RouterAgent.negotiate_between_agents and handle_complex_query *)

\* As synthesize, but the first response of the support agent is preferred to
\* the one given with the customer's context.
synthesize_first_support(responses) ==
    LET customer_part ==
            IF "data" \in DOMAIN responses /\ responses["data"].success
            THEN << "Customer: " \o responses["data"].result.name
                    \o " (" \o responses["data"].result.status \o ")" >>
            ELSE <<>>
        chosen == IF "support" \in DOMAIN responses
                  THEN <<responses["support"]>>
                  ELSE IF "support_with_context" \in DOMAIN responses
                  THEN <<responses["support_with_context"]>>
                  ELSE <<>>
    IN  IF chosen # <<>> /\ "result" \notin DOMAIN chosen[1]
        THEN Raise(<<>>, "KeyError", "'result'")
        ELSE LET parts == customer_part
                          \o (IF chosen = <<>> THEN <<>>
                              ELSE <<Get(chosen[1].result, "solution", "")>>)
             IN  Return(<<>>, IF parts # <<>> THEN Join(parts, "\n")
                              ELSE "I'm working on your request.")

\* The synthesis at the end of handle_complex_query, from
\* coordinated["responses"].  response["result"] of a failed response is a
\* KeyError.
synthesize(responses) ==
    LET customer_part ==
            IF "data" \in DOMAIN responses /\ responses["data"].success
            THEN << "Customer: " \o responses["data"].result.name
                    \o " (" \o responses["data"].result.status \o ")" >>
            ELSE <<>>
        chosen == IF "support_with_context" \in DOMAIN responses
                  THEN <<responses["support_with_context"]>>
                  ELSE IF "support" \in DOMAIN responses THEN <<responses["support"]>>
                  ELSE <<>>
    IN  IF chosen # <<>> /\ "result" \notin DOMAIN chosen[1]
        THEN Raise(<<>>, "KeyError", "'result'")
        ELSE LET parts == customer_part
                          \o (IF chosen = <<>> THEN <<>>
                              ELSE <<Get(chosen[1].result, "solution", "")>>)
             IN  Return(<<>>, IF parts # <<>> THEN Join(parts, "\n")
                              ELSE "I'm working on your request.")

\* As NeedsContext, but any successful response asks for the customer.
NeedsContext_whenever_success(resp) == resp.success

\* "If support agent needs customer context"
NeedsContext(resp) == resp.success /\ Get(resp.result, "needs_customer_context", FALSE)

\* negotiate_between_agents, up to its first dispatch.
negotiate_between_agents(q, a) ==
    LET start == <<Log("Starting agent negotiation for complex query")>>
    IN  IF a.needs_support_agent
        THEN Send(start \o <<A2A(RouterName, SupportAgentName, "Can you handle this query?")>>,
                  Request("support", "handle_query", [query |-> q]),
                  Frame("complex", "negotiate_support"))
        ELSE After(start, synthesize(<<>>))

\* As handle_complex_query, but the single-customer lookup is tried before the
\* customer listing.
handle_complex_query_show_first(q, a) ==
    LET ql == lower(q)
        id == a.customer_id
        hello == <<Log("Handling complex query with agent coordination")>>
    IN  IF (In("ticket", ql) \/ In("history", ql)) /\ Truthy(id)
        THEN Send(hello, Request("data", "get_history", [customer_id |-> id[1]]),
                  Frame("complex", "history"))
        ELSE IF In("show", ql) /\ In("customer", ql) /\ Truthy(id)
        THEN Send(hello, Request("data", "get_customer", [customer_id |-> id[1]]),
                  Frame("complex", "show"))
        ELSE IF In("list", ql) /\ In("customer", ql)
        THEN Send(hello,
                  Request("data", "list_customers",
                          [ status |-> IF In("active", ql) THEN "active"
                                       ELSE IF In("disabled", ql) THEN "disabled" ELSE "",
                            limit |-> 10 ]),
                  Frame("complex", "list"))
        ELSE After(hello, negotiate_between_agents(q, a))

handle_complex_query(q, a) ==
    LET ql == lower(q)
        id == a.customer_id
        hello == <<Log("Handling complex query with agent coordination")>>
    IN  IF (In("ticket", ql) \/ In("history", ql)) /\ Truthy(id)
        THEN Send(hello, Request("data", "get_history", [customer_id |-> id[1]]),
                  Frame("complex", "history"))
        ELSE IF In("list", ql) /\ In("customer", ql)
        THEN Send(hello,
                  Request("data", "list_customers",
                          [ status |-> IF In("active", ql) THEN "active"
                                       ELSE IF In("disabled", ql) THEN "disabled" ELSE "",
                            limit |-> 10 ]),
                  Frame("complex", "list"))
        ELSE IF In("show", ql) /\ In("customer", ql) /\ Truthy(id)
        THEN Send(hello, Request("data", "get_customer", [customer_id |-> id[1]]),
                  Frame("complex", "show"))
        ELSE After(hello, negotiate_between_agents(q, a))

RECURSIVE CustomerListLines(_)
CustomerListLines(cs) ==
    IF cs = <<>> THEN ""
    ELSE "  * " \o cs[1].name \o " (ID: " \o ToString(cs[1].id) \o ", Status: "
         \o cs[1].status \o ")\n" \o CustomerListLines(SubSeq(cs, 2, Len(cs)))

\* handle_complex_query (and the negotiation it runs) after a response.
resume_complex(fr, q, a, resp) ==
    CASE fr.label = "history" -> Return(<<>>, HistoryText(a.customer_id[1], resp))
      [] fr.label = "list" ->
           IF ~resp.success THEN Return(<<>>, ErrorText(resp))
           ELSE IF resp.result # <<>>
           THEN Return(<<>>, strip("Customer List (" \o ToString(Len(resp.result))
                                   \o " customers):\n" \o CustomerListLines(resp.result)))
           ELSE Return(<<>>, "No customers found")
      [] fr.label = "show" ->
           IF resp.success THEN Return(<<>>, CustomerInformation(resp.result))
           ELSE Return(<<>>, ErrorText(resp))
      [] fr.label = "negotiate_support" ->
           LET responses == ("support" :> resp)
           IN  IF NeedsContext(resp)
               THEN After(<<Log("Support Agent needs customer context, requesting from Data Agent")>>,
                          IF Truthy(a.customer_id)
                          THEN Send(<<>>,
                                    Request("data", "get_customer",
                                            [customer_id |-> a.customer_id[1]]),
                                    [Frame("complex", "negotiate_data")
                                       EXCEPT !.responses = responses])
                          ELSE synthesize(responses))
               ELSE synthesize(responses)
      [] fr.label = "negotiate_data" ->
           LET responses == fr.responses @@ ("data" :> resp)
           IN  IF resp.success
               THEN Send(<<Log("Providing customer context to Support Agent")>>,
                         Request("support", "handle_query",
                                 [query |-> q, customer_data |-> resp.result]),
                         [Frame("complex", "negotiate_context")
                            EXCEPT !.responses = responses])
               ELSE synthesize(responses)
      [] fr.label = "negotiate_context" ->
           synthesize(fr.responses @@ ("support_with_context" :> resp))

-----------------------------------------------------------------------------
(* The literals handle_multi_step_query extracts from the query *)

\* [\w\.-]
IsEmailChar(c) == IsWord(c) \/ c = "." \/ c = "-"

RECURSIVE EmailCharsEnd(_, _)
\* [\w\.-]* from position i: the position after the longest run.
EmailCharsEnd(s, i) == IF IsEmailChar(Ch(s, i)) THEN EmailCharsEnd(s, i + 1) ELSE i

RECURSIVE WordEnd(_, _)
\* \w* from position i: the position after the longest run.
WordEnd(s, i) == IF IsWord(Ch(s, i)) THEN WordEnd(s, i + 1) ELSE i

\* r'[\w\.-]+@[\w\.-]+\.\w+' at position i: the local part runs up to the "@",
\* the domain is cut at its last "." that a word character follows.
PatEmail(s, i) ==
    LET at == EmailCharsEnd(s, i)
        e  == EmailCharsEnd(s, at + 1)
        dots == {d \in (at + 2)..(e - 1) : Ch(s, d) = "." /\ IsWord(Ch(s, d + 1))}
    IN  IF at > i /\ Ch(s, at) = "@" /\ dots # {}
        THEN LET d == CHOOSE x \in dots : \A y \in dots : y <= x
             IN  <<SubSeq(s, i, WordEnd(s, d + 1) - 1)>>
        ELSE None

\* r'\d{3}-?\d{4}' at position i
PatPhone(s, i) ==
    LET three == \A k \in 0..2 : IsDigit(Ch(s, i + k))
        j == IF Ch(s, i + 3) = "-" THEN i + 4 ELSE i + 3
    IN  IF three /\ \A k \in 0..3 : IsDigit(Ch(s, j + k))
        THEN <<SubSeq(s, i, j + 3)>>
        ELSE None

-----------------------------------------------------------------------------
(* RouterAgent.handle_multi_step_query *)

\* customers[:10] of the analytical ticket query
AnalyticCap == 10

\* filtered_tickets[:10]
ShownCap == 10

\* customers[:5] of the active-customers query
ActiveCap == 5

\* As Finish, but no results are joined to the empty text.
Finish_joining_nothing(results) == Return(<<>>, Join(results, "\n"))

\* return "\n".join(results) if results else "Query processed."
Finish(results) ==
    Return(<<>>, IF results # <<>> THEN Join(results, "\n") ELSE "Query processed.")

PriorityDesc(priority_filter) ==
    IF priority_filter # "" THEN priority_filter \o "-priority " ELSE ""

RECURSIVE AnalyticLines(_)
AnalyticLines(found) ==
    IF found = <<>> THEN <<>>
    ELSE << "  * " \o found[1].customer \o ": [" \o upper(found[1].status) \o "] "
            \o found[1].issue,
            "    Priority: " \o found[1].priority >>
         \o AnalyticLines(SubSeq(found, 2, Len(found)))

\* As analytic_loop, but the history of every returned customer is fetched.
analytic_loop_uncapped(fr) ==
    IF fr.i <= Len(fr.customers)
    THEN Send(<<>>, Request("data", "get_history", [customer_id |-> fr.customers[fr.i].id]),
              [fr EXCEPT !.label = "analytic_history"])
    ELSE IF fr.collected # <<>>
    THEN Finish(fr.results
                \o << "Found " \o ToString(Len(fr.collected)) \o " "
                      \o PriorityDesc(fr.priority_filter) \o "tickets:\n" >>
                \o AnalyticLines(Take(fr.collected, ShownCap)))
    ELSE Finish(fr.results
                \o <<"No " \o PriorityDesc(fr.priority_filter) \o "tickets found.">>)

\* The analytical ticket query from customer fr.i on: the next history fetch,
\* or the report when customers[:10] is exhausted.
analytic_loop(fr) ==
    IF fr.i <= Len(Take(fr.customers, AnalyticCap))
    THEN Send(<<>>, Request("data", "get_history", [customer_id |-> fr.customers[fr.i].id]),
              [fr EXCEPT !.label = "analytic_history"])
    ELSE IF fr.collected # <<>>
    THEN Finish(fr.results
                \o << "Found " \o ToString(Len(fr.collected)) \o " "
                      \o PriorityDesc(fr.priority_filter) \o "tickets:\n" >>
                \o AnalyticLines(Take(fr.collected, ShownCap)))
    ELSE Finish(fr.results
                \o <<"No " \o PriorityDesc(fr.priority_filter) \o "tickets found.">>)

RECURSIVE ActiveLines(_)
ActiveLines(found) ==
    IF found = <<>> THEN <<>>
    ELSE << "- " \o found[1].customer.name \o ": " \o ToString(found[1].open_tickets)
            \o " open ticket(s)" >>
         \o ActiveLines(SubSeq(found, 2, Len(found)))

\* As active_loop, but the history requests of all remaining customers are
\* issued together, before any response is awaited.
active_loop_all_at_once(fr) ==
    IF fr.i <= Len(Take(fr.customers, ActiveCap))
    THEN [ kind |-> "send", logs |-> <<>>,
           requests |-> [ k \in 1..(Len(Take(fr.customers, ActiveCap)) - fr.i + 1) |->
                            Request("data", "get_history",
                                    [customer_id |-> fr.customers[fr.i + k - 1].id]) ],
           frame |-> [fr EXCEPT !.label = "active_history"] ]
    ELSE IF fr.collected # <<>>
    THEN Finish(fr.results \o <<"\nActive customers with open tickets:">>
                \o ActiveLines(fr.collected))
    ELSE Finish(fr.results \o <<"No active customers with open tickets found.">>)

\* As active_loop, but the history of every returned customer is fetched.
active_loop_uncapped(fr) ==
    IF fr.i <= Len(fr.customers)
    THEN Send(<<>>, Request("data", "get_history", [customer_id |-> fr.customers[fr.i].id]),
              [fr EXCEPT !.label = "active_history"])
    ELSE IF fr.collected # <<>>
    THEN Finish(fr.results \o <<"\nActive customers with open tickets:">>
                \o ActiveLines(fr.collected))
    ELSE Finish(fr.results \o <<"No active customers with open tickets found.">>)

\* The active-customers query from customer fr.i on: the next history fetch,
\* or the report when customers[:5] is exhausted.
active_loop(fr) ==
    IF fr.i <= Len(Take(fr.customers, ActiveCap))
    THEN Send(<<>>, Request("data", "get_history", [customer_id |-> fr.customers[fr.i].id]),
              [fr EXCEPT !.label = "active_history"])
    ELSE IF fr.collected # <<>>
    THEN Finish(fr.results \o <<"\nActive customers with open tickets:">>
                \o ActiveLines(fr.collected))
    ELSE Finish(fr.results \o <<"No active customers with open tickets found.">>)

HelpWords == {"help", "need", "having", "here", "issue", "problem"}

\* As wants_history, but only the word history asks for it.
wants_history_by_name(ql) == In("history", ql)

\* "Show history if requested"
wants_history(ql) == In("history", ql) \/ In("ticket", ql)

\* As extract_email, but a placeholder stands in for a missing address.
extract_email_or_placeholder(q) ==
    IF Search(PatEmail, q) # None THEN Search(PatEmail, q) ELSE <<"unknown@example.com">>

\* email_match = re.search(r'[\w\.-]+@[\w\.-]+\.\w+', query)
extract_email(q) == Search(PatEmail, q)

\* As open_tickets_of, but tickets of any status are kept.
open_tickets_of_any_status(ts) == ts

\* open_tickets = [t for t in tickets if t["status"] == "open"]
open_tickets_of(ts) == Filter(ts, LAMBDA t : t.status = "open")

\* As update_email_case, but the case is never taken: the query falls through
\* to the cases below it.
update_email_case_never(ql, id) == FALSE

\* "Case 2: Update email and show history (check this BEFORE simple history)"
update_email_case(ql, id) == In("update", ql) /\ In("email", ql) /\ Truthy(id)

\* As HelpSupportRequest, but the query goes to the SupportAgent alone.
HelpSupportRequest_without_context(q, customer) ==
    Request("support", "handle_query", [query |-> q])

\* As HelpSupportRequest, but the support agent is asked to open a ticket
\* for the customer.
HelpSupportRequest_opening_ticket(q, customer) ==
    Request("support", "create_ticket", [customer_id |-> customer.id, issue |-> q])

\* "Step 2: Get support response with context" of the help case.
HelpSupportRequest(q, customer) ==
    Request("support", "handle_query", [query |-> q, customer_data |-> customer])

\* As PhoneUpdateRequest, but the new phone is a parameter of its own instead
\* of an entry of "updates".
PhoneUpdateRequest_flat(customer_id, new_phone) ==
    Request("data", "update_customer", [customer_id |-> customer_id, phone |-> new_phone])

\* The update_customer request of the update-phone case.
PhoneUpdateRequest(customer_id, new_phone) ==
    Request("data", "update_customer",
            [customer_id |-> customer_id, updates |-> [phone |-> new_phone]])

handle_multi_step_query(q, a) ==
    LET ql == lower(q)
        id == a.customer_id
        hello == <<Log("Handling multi-step query")>>
        email == extract_email(q)
        phone == Search(PatPhone, q)
    IN  IF (In("what is", ql) \/ In("status", ql)) /\ In("ticket", ql) /\ In("priority", ql)
        THEN Send(hello \o <<Log("Analytical ticket query detected")>>,
                  Request("data", "get_premium_customers", <<>>),
                  [Frame("multi-step", "analytic_customers")
                     EXCEPT !.priority_filter =
                              IF In("high", ql) /\ In("priority", ql) THEN "high"
                              ELSE IF In("medium", ql) /\ In("priority", ql) THEN "medium"
                              ELSE IF In("low", ql) /\ In("priority", ql) THEN "low"
                              ELSE ""])
        ELSE IF In("active customers", ql) /\ In("tickets", ql)
        THEN Send(hello \o <<Log("Step 1: Getting active customers")>>,
                  Request("data", "get_premium_customers", <<>>),
                  Frame("multi-step", "active_customers"))
        ELSE IF update_email_case(ql, id)
        THEN IF email # None
             THEN Send(hello \o <<Log("Step 1: Updating email for customer " \o ToString(id[1]))>>,
                       Request("data", "update_customer",
                               [customer_id |-> id[1], updates |-> [email |-> email[1]]]),
                       [Frame("multi-step", "email_update") EXCEPT !.value = email[1]])
             ELSE After(hello, Finish(<<"Could not extract email address from query">>))
        ELSE IF In("update", ql) /\ In("phone", ql) /\ Truthy(id)
        THEN IF phone # None
             THEN Send(hello \o <<Log("Updating phone for customer " \o ToString(id[1]))>>,
                       PhoneUpdateRequest(id[1], phone[1]),
                       [Frame("multi-step", "phone_update") EXCEPT !.value = phone[1]])
             ELSE After(hello, Finish(<<"Could not extract phone number from query">>))
        ELSE IF (In("change", ql) \/ In("update", ql)) /\ In("email", ql) /\ Truthy(id)
        THEN IF email # None
             THEN Send(hello \o <<Log("Changing email for customer " \o ToString(id[1]))>>,
                       Request("data", "update_customer",
                               [customer_id |-> id[1], updates |-> [email |-> email[1]]]),
                       [Frame("multi-step", "email_change") EXCEPT !.value = email[1]])
             ELSE After(hello, Finish(<<"Could not extract email address from query">>))
        ELSE IF (In("ticket", ql) \/ In("history", ql)) /\ Truthy(id)
        THEN Send(hello \o <<Log("Getting ticket history for customer " \o ToString(id[1]))>>,
                  Request("data", "get_history", [customer_id |-> id[1]]),
                  Frame("multi-step", "history"))
        ELSE IF Truthy(id) /\ AnyIn(HelpWords, ql)
        THEN Send(hello, Request("data", "get_customer", [customer_id |-> id[1]]),
                  Frame("multi-step", "help_customer"))
        ELSE After(hello, Finish(<<>>))

RECURSIVE EmailHistoryLines(_)
EmailHistoryLines(ts) ==
    IF ts = <<>> THEN <<>>
    ELSE << "  - [" \o upper(ts[1].status) \o "] " \o ts[1].issue
            \o " (Priority: " \o ts[1].priority \o ")" >>
         \o EmailHistoryLines(SubSeq(ts, 2, Len(ts)))

RECURSIVE HistoryLines(_)
HistoryLines(ts) ==
    IF ts = <<>> THEN <<>>
    ELSE << "  - [" \o upper(ts[1].status) \o "] " \o ts[1].issue \o " "
            \o "(Priority: " \o ts[1].priority \o ", ID: " \o ToString(ts[1].id) \o ")" >>
         \o HistoryLines(SubSeq(ts, 2, Len(ts)))

\* As next_customer, but a failed get_history ends the loop.
next_customer_unless_failed(fr, resp) ==
    IF resp.success THEN fr.i + 1 ELSE Len(fr.customers) + 1

\* The loops over the customers go on to the next customer whatever the
\* history response was.
next_customer(fr, resp) == fr.i + 1

\* As help_reply, but the customer is greeted whatever the support agent
\* answered.
help_reply_greeting_anyway(fr, resp) ==
    Finish(fr.results
           \o <<"Hello " \o fr.customer.name \o "!",
                IF resp.success THEN resp.result.solution
                ELSE "I'm here to help. Please provide more details.">>)

\* The help case of handle_multi_step_query after the response of the
\* support agent.
help_reply(fr, resp) ==
    IF resp.success
    THEN Finish(fr.results
                \o <<"Hello " \o fr.customer.name \o "!", resp.result.solution>>)
    ELSE Finish(fr.results \o <<"I'm here to help. Please provide more details.">>)

\* handle_multi_step_query after a response.
resume_multi_step(fr, q, a, resp) ==
    LET ql == lower(q)
        id == IF a.customer_id = None THEN 0 ELSE a.customer_id[1]
    IN
    CASE fr.label = "analytic_customers" ->
           IF resp.success
           THEN analytic_loop([fr EXCEPT !.customers = resp.result, !.i = 1,
                                         !.collected = <<>>])
           ELSE Finish(fr.results \o <<"Unable to retrieve ticket data.">>)
      [] fr.label = "analytic_history" ->
           LET customer == fr.customers[fr.i]
               kept == IF resp.success
                       THEN Filter(resp.result,
                                   LAMBDA t : fr.priority_filter = ""
                                              \/ t.priority = fr.priority_filter)
                       ELSE <<>>
           IN  analytic_loop([fr EXCEPT
                   !.i = next_customer(fr, resp),
                   !.collected = fr.collected
                       \o [ k \in 1..Len(kept) |->
                              [ customer |-> customer.name, issue |-> kept[k].issue,
                                status |-> kept[k].status, priority |-> kept[k].priority ] ]])
      [] fr.label = "active_customers" ->
           IF resp.success
           THEN After(<<Log("Step 2: Getting tickets for customers")>>,
                      active_loop([fr EXCEPT
                          !.customers = resp.result, !.i = 1, !.collected = <<>>,
                          !.results = fr.results
                              \o << "Found " \o ToString(Len(resp.result))
                                    \o " active customers" >>]))
           ELSE Finish(fr.results)
      [] fr.label = "active_history" ->
           LET open_tickets == IF resp.success THEN open_tickets_of(resp.result)
                               ELSE <<>>
           IN  active_loop([fr EXCEPT
                   !.i = next_customer(fr, resp),
                   !.collected = fr.collected
                       \o (IF open_tickets # <<>>
                           THEN << [ customer |-> fr.customers[fr.i],
                                     open_tickets |-> Len(open_tickets) ] >>
                           ELSE <<>>)])
      [] fr.label = "email_update" ->
           LET results == fr.results
                   \o (IF resp.success
                       THEN << "[ok] Email updated to " \o fr.value \o " for customer "
                               \o ToString(id) >>
                       ELSE << "Error updating email: " \o Get(resp, "error", "Unknown error") >>)
           IN  IF wants_history(ql)
               THEN Send(<<Log("Step 2: Getting ticket history for customer " \o ToString(id))>>,
                         Request("data", "get_history", [customer_id |-> id]),
                         [fr EXCEPT !.label = "email_history", !.results = results])
               ELSE Finish(results)
      [] fr.label = "email_history" ->
           IF resp.success
           THEN Finish(fr.results \o <<"\nTicket History:">> \o EmailHistoryLines(resp.result))
           ELSE Finish(fr.results \o <<"No tickets found">>)
      [] fr.label = "phone_update" ->
           IF resp.success
           THEN Finish(fr.results
                       \o << "[ok] Phone updated to " \o fr.value \o " for customer "
                             \o ToString(id),
                             "\nUpdated Customer Information:",
                             "  Name: " \o resp.result.name,
                             "  Email: " \o resp.result.email,
                             "  Phone: " \o resp.result.phone >>)
           ELSE Finish(fr.results
                       \o << "Error updating phone: " \o Get(resp, "error", "Unknown error") >>)
      [] fr.label = "email_change" ->
           IF resp.success
           THEN Finish(fr.results
                       \o << "[ok] Email changed to " \o fr.value \o " for customer "
                             \o ToString(id),
                             "\nUpdated Customer Information:",
                             "  Name: " \o resp.result.name,
                             "  Email: " \o resp.result.email >>)
           ELSE Finish(fr.results
                       \o << "Error changing email: " \o Get(resp, "error", "Unknown error") >>)
      [] fr.label = "history" ->
           IF ~resp.success THEN Finish(fr.results \o <<ErrorText(resp)>>)
           ELSE IF resp.result # <<>>
           THEN Finish(fr.results
                       \o <<"Ticket History for Customer " \o ToString(id) \o ":">>
                       \o HistoryLines(resp.result))
           ELSE Finish(fr.results \o <<"No tickets found for customer " \o ToString(id)>>)
      [] fr.label = "help_customer" ->
           IF resp.success
           THEN Send(<<>>, HelpSupportRequest(q, resp.result),
                     [fr EXCEPT !.label = "help_support", !.customer = resp.result])
           ELSE Finish(fr.results \o <<ErrorText(resp)>>)
      [] fr.label = "help_support" -> help_reply(fr, resp)

-----------------------------------------------------------------------------
(* RouterAgent.process_query and the dispatcher *)

\* "=" * 80
Banner == "================================================================================"

\* repr of the intents list
IntentsRepr(intents) ==
    "[" \o Join([i \in 1..Len(intents) |-> "'" \o intents[i] \o "'"], ", ") \o "]"

\* What process_query and analyze_query log before the strategy starts.
Opening(q, a) ==
    << Log(Banner), Log("NEW QUERY: " \o q), Log(Banner),
       Log("Analyzing query: " \o Take(q, 80) \o "..."),
       Log("Analysis: " \o a.complexity \o " query, needs: " \o IntentsRepr(a.intents)) >>

\* What process_query logs after the strategy returned.
Closing == <<Log("Query processing complete"), Log(Banner)>>

\* As process_query, but every query is handed to the complex strategy.
process_query_always_complex(q) ==
    LET a == analyze_query(q)
    IN  After(Opening(q, a), handle_complex_query(q, a))

\* process_query up to the first dispatch of the strategy the tier selects.
process_query(q) ==
    LET a == analyze_query(q)
    IN  After(Opening(q, a),
              IF a.complexity = "simple" THEN handle_simple_query(q, a)
              ELSE IF a.complexity = "multi-step" THEN handle_multi_step_query(q, a)
              ELSE handle_complex_query(q, a))

\* The caller of route_to_data_agent / route_to_support_agent gets the response.
Result(resp) == [kind |-> "result", logs |-> <<>>, response |-> resp]

\* The strategy that waits in frame fr goes on with the response.
resume(fr, q, a, resp) ==
    CASE fr.strategy = "simple" -> resume_simple(fr, q, a, resp)
      [] fr.strategy = "complex" -> resume_complex(fr, q, a, resp)
      [] fr.strategy = "multi-step" -> resume_multi_step(fr, q, a, resp)
      [] fr.strategy = "direct" -> Result(resp)

\* The outbound entry of route_to_*_agent (the message without the repr of the
\* parameters that follows "with params").
Outbound(request) ==
    A2A(RouterName, AgentName(request.to), request.action \o " with params")

\* As Inbound, but the entry says Success whatever the response.
Inbound_success_always(to, resp) == A2A(AgentName(to), RouterName, "Response: Success")

\* The inbound entry of route_to_*_agent.
Inbound(to, resp) ==
    A2A(AgentName(to), RouterName,
        "Response: " \o (IF resp.success THEN "Success" ELSE "Failed"))

\* The provider's handle_request.
handle_request(request, cs, ts, now, fault) ==
    IF request.to = "data" THEN data_handle_request(request, cs, ts, now, fault)
    ELSE support_handle_request(request, cs, ts, now, fault)

-----------------------------------------------------------------------------
(* The state machine *)

\* The most process_query calls of one session.
MaxCalls == 2

\* The most provider faults of one session.
MaxFaults == 1

\* The customers the seed database holds.
NumCustomers == 11

\* The variables the classifier does not touch.
Quiescent ==
    /\ pc = "idle"
    /\ frame = <<>>
    /\ inflight = <<>>
    /\ reply = <<>>
    /\ outcome = "none"
    /\ response = ""
    /\ coordination_log = <<>>
    /\ clock = 0
    /\ dispatches = <<>>
    /\ completed = 0
    /\ calls = <<>>
    /\ faults = 0
    /\ lastCall = "none"
    /\ threads = <<>>

CustomerRow(i, status) ==
    [ id |-> i, name |-> "Name" \o ToString(i),
      email |-> "user" \o ToString(i) \o "@example.com",
      phone |-> "555-010" \o ToString(i), status |-> status,
      created_at |-> 0, updated_at |-> 0 ]

SeedCustomers ==
    { [i \in 1..NumCustomers |-> CustomerRow(i, "active")],
      [i \in 1..NumCustomers |-> CustomerRow(i, IF i % 2 = 1 THEN "disabled" ELSE "active")],
      [i \in 1..NumCustomers |-> CustomerRow(i, IF i % 4 = 0 THEN "active" ELSE "disabled")] }

SeedTickets ==
    << [id |-> 1, customer_id |-> 1, issue |-> "Cannot login", status |-> "open",
        priority |-> "high", created_at |-> 1],
       [id |-> 2, customer_id |-> 1, issue |-> "Billing question", status |-> "resolved",
        priority |-> "low", created_at |-> 2],
       [id |-> 3, customer_id |-> 2, issue |-> "Refund request", status |-> "open",
        priority |-> "medium", created_at |-> 3],
       [id |-> 4, customer_id |-> 2, issue |-> "Slow dashboard", status |-> "in_progress",
        priority |-> "high", created_at |-> 4] >>
    \o [ k \in 1..(NumCustomers - 3) |->
           [ id |-> 4 + k, customer_id |-> 3 + k, issue |-> "Issue " \o ToString(4 + k),
             status |-> IF k % 3 = 0 THEN "resolved" ELSE "open",
             priority |-> IF k % 3 = 1 THEN "high" ELSE IF k % 3 = 2 THEN "medium" ELSE "low",
             created_at |-> 4 + k ] ]

Queries ==
    { "xyzzy",
      "What is the email of customer 1",
      "What is the name of customer 2",
      "What's the phone of customer 1",
      "What is the status of customer 3",
      "What is the info of customer 99",
      "Get customer information for ID 2",
      "Get customer information for ID 0",
      "What is the customer information for ID 2",
      "What is the email in the customer information for ID 2",
      "Get history for customer 1",
      "I have a question about pricing",
      "I've been charged twice, please refund immediately!",
      "Show ticket history for customer 1",
      "What tickets does customer 3 have?",
      "List all active customers",
      "List disabled customers",
      "Show me customer 2",
      "I need support for my account",
      "Customer ID 2 cannot upgrade",
      "Customer 3 reported a billing error",
      "I'm customer 99 with a billing problem",
      "Please call me",
      "What is the status of all high priority tickets",
      "Status of every ticket by priority",
      "Show me all active customers who have open tickets",
      "Update my email to newemail@test.com and show my ticket history for customer 1",
      "Update email for customer 1",
      "Update the email of customer 1 and show ticket history",
      "Update customer 2 email to new.mail@test.org",
      "Update customer 3 phone to 555-9999",
      "Update customer 3 phone",
      "Update customer 99 phone to 5551234",
      "Update customer 0 phone to 555-9999",
      "Update customer 3 phone to 555-9999 and email me",
      "Change email for customer 2 to updated@email.com",
      "Change email for customer 3 to fresh@mail.net",
      "Change email for customer 3 to fresh@mail.net and show ticket history",
      "Update customer 2 email to a@b.io then show tickets",
      "Change the email of customer 2",
      "Show tickets for customer 1 and then stop",
      "I'm customer 2 and need help upgrading my account",
      "I'm customer 99 and having login issues",
      "I want to upgrade and also check my billing",
      "List customers with high priority tickets",
      "Show me the list with customer 2",
      "Show ticket history for customer 0",
      "I'm customer 0 with a billing problem" }

Init ==
    /\ query \in Queries
    /\ analysis = <<>>
    /\ customers \in SeedCustomers
    /\ tickets = SeedTickets
    /\ Quiescent

\* The entries the effect e logs, after `before`, with the outbound entry of
\* each dispatch it issues.
EffectEntries(before, e) ==
    before \o e.logs
    \o (IF e.kind = "send" THEN [i \in 1..Len(e.requests) |-> Outbound(e.requests[i])]
        ELSE IF e.kind = "return" THEN Closing
        ELSE <<>>)

\* The router goes on as effect e says; `before` are the entries logged before
\* it, `rest` the requests still in flight, `done` the dispatches of the call.
Continue(e, before, rest, done) ==
    /\ coordination_log' = append_log(coordination_log, EffectEntries(before, e), clock)
    /\ clock' = clock + Len(EffectEntries(before, e))
    /\ inflight' = IF e.kind = "send" THEN rest \o e.requests ELSE rest
    /\ frame' = IF e.kind = "send" THEN e.frame ELSE <<>>
    /\ pc' = IF e.kind = "send" THEN "waiting" ELSE "idle"
    /\ outcome' = CASE e.kind = "send" -> "none"
                    [] e.kind = "raise" -> "raised"
                    [] OTHER -> "returned"
    /\ response' = CASE e.kind = "return" -> e.text
                     [] e.kind = "raise" -> e.exc \o ": " \o e.message
                     [] OTHER -> ""
    /\ calls' = IF e.kind \in {"return", "raise"}
                THEN Append(calls, [ query |-> query,
                                     outcome |-> IF e.kind = "return" THEN "returned"
                                                 ELSE "raised",
                                     text |-> IF e.kind = "return" THEN e.text
                                              ELSE e.exc \o ": " \o e.message,
                                     dispatches |-> done,
                                     faults |-> faults ])
                ELSE calls

\* process_query(query) is called.
ProcessQuery ==
    /\ pc = "idle"
    /\ Len(calls) < MaxCalls
    /\ analysis' = analyze_query(query)
    /\ dispatches' = <<>>
    /\ lastCall' = "process_query"
    /\ Continue(process_query(query), <<>>, <<>>, <<>>)
    /\ UNCHANGED <<threads, query, reply, customers, tickets, completed, faults>>

\* The provider handles the oldest request in flight and responds.  It may
\* fail in this call.
ProviderHandle ==
    /\ pc = "waiting"
    /\ inflight # <<>>
    /\ \E fault \in BOOLEAN :
         /\ fault => faults < MaxFaults
         /\ \E h \in {handle_request(inflight[1], customers, tickets, clock, fault)} :
                /\ reply' = <<[resp |-> h.resp, exception |-> h.exception]>>
                /\ customers' = h.customers
                /\ tickets' = h.tickets
         /\ faults' = IF fault THEN faults + 1 ELSE faults
    /\ pc' = "replied"
    /\ UNCHANGED <<threads, query, analysis, frame, inflight, outcome, response,
                   coordination_log, clock, dispatches, completed, calls, lastCall>>

\* handle_request returned: route_to_*_agent logs the inbound entry and the
\* strategy goes on with the response.
RouterResume ==
    /\ pc = "replied"
    /\ LET request == inflight[1]
           resp == reply[1].resp
           done == Append(dispatches, [ to |-> request.to, action |-> request.action,
                                        parameters |-> request.parameters,
                                        response |-> resp,
                                        exception |-> reply[1].exception ])
       IN  /\ dispatches' = done
           /\ IF "success" \in DOMAIN resp
              THEN /\ completed' = completed + 1
                   /\ Continue(resume(frame, query, analysis, resp),
                               <<Inbound(request.to, resp)>>, Tail(inflight), done)
              ELSE /\ completed' = completed
                   /\ Continue(Raise(<<>>, resp.exc, resp.message), <<>>,
                               Tail(inflight), done)
    /\ reply' = <<>>
    /\ UNCHANGED <<threads, query, analysis, customers, tickets, faults, lastCall>>

\* clear_coordination_log() is called, between two queries.
ClearTrace ==
    /\ pc = "idle"
    /\ coordination_log' = clear_coordination_log(coordination_log)
    /\ completed' = 0
    /\ lastCall' = "clear_coordination_log"
    /\ UNCHANGED <<threads, query, analysis, pc, frame, inflight, reply, outcome, response,
                   clock, customers, tickets, dispatches, calls, faults>>

Next == ProcessQuery \/ ProviderHandle \/ RouterResume \/ ClearTrace

Spec == Init /\ [][Next]_vars

\* The provider returns from the call it is handling: the step from waiting
\* to replied, which only ProviderHandle takes.
ProviderReturns == pc = "waiting" /\ pc' = "replied"

\* The router, which is sequential code, goes on after a response: the step
\* that leaves replied, which only RouterResume takes.
RouterGoesOn == pc = "replied" /\ pc' \in {"waiting", "idle"}

\* The session when every provider call returns and the router goes on after
\* each response.
SpecLive == Spec /\ WF_pc(ProviderReturns) /\ WF_pc(RouterGoesOn)

-----------------------------------------------------------------------------
(* The dispatcher on its own: a caller of route_to_data_agent and            *)
(* route_to_support_agent with action names and parameters of its choice.    *)

\* The most dispatches of one session.
MaxDirect == 2

\* The requests the caller makes: every action of either agent, with the
\* parameters it reads present and missing, for customers that exist and that
\* do not, and actions neither agent has.
DirectRequests ==
    { Request("data", "get_customer", [customer_id |-> 1]),
      Request("data", "get_customer", [customer_id |-> 2]),
      Request("data", "get_customer", [customer_id |-> 99]),
      Request("data", "get_customer", <<>>),
      Request("data", "list_customers", [status |-> "active"]),
      Request("data", "update_customer",
              [customer_id |-> 2, updates |-> [email |-> "two@new.org"]]),
      Request("data", "update_customer",
              [customer_id |-> 2, updates |-> [email |-> "second@new.org"]]),
      Request("data", "update_customer",
              [customer_id |-> 2, updates |-> [phone |-> "555-2222"]]),
      Request("data", "update_customer",
              [customer_id |-> 99, updates |-> [email |-> "two@new.org"]]),
      Request("data", "update_customer", [customer_id |-> 2, updates |-> [tier |-> "gold"]]),
      Request("data", "update_customer", [customer_id |-> 2]),
      Request("data", "get_history", [customer_id |-> 1]),
      Request("data", "validate_customer", [customer_id |-> 99]),
      Request("data", "get_premium_customers", <<>>),
      Request("data", "delete_customer", [customer_id |-> 1]),
      Request("support", "handle_query", [query |-> "Urgent: refund my payment"]),
      Request("support", "handle_query", <<>>),
      Request("support", "create_ticket", [customer_id |-> 1, issue |-> "Login failed"]),
      Request("support", "create_ticket", [customer_id |-> 99, issue |-> "Login failed"]),
      Request("support", "analyze_urgency", [query |-> "locked out"]),
      Request("support", "detect_intents", [query |-> "cancel and refund"]),
      Request("support", "escalate", <<>>) }

InitDispatch ==
    /\ query = ""
    /\ analysis = <<>>
    /\ customers \in SeedCustomers
    /\ tickets = SeedTickets
    /\ Quiescent

\* route_to_data_agent / route_to_support_agent is called: the outbound entry
\* is logged and the request handed to the agent.
Dispatch ==
    /\ pc = "idle"
    /\ completed < MaxDirect
    /\ \E request \in DirectRequests :
         Continue(Send(<<>>, request, Frame("direct", "direct")), <<>>, <<>>, dispatches)
    /\ lastCall' = "route_to_agent"
    /\ UNCHANGED <<threads, query, analysis, reply, customers, tickets, dispatches, completed,
                   faults>>

NextDispatch == Dispatch \/ ProviderHandle \/ RouterResume

SpecDispatch == InitDispatch /\ [][NextDispatch]_vars

-----------------------------------------------------------------------------
(* The classifier on its own: analyze_query applied to queries put together  *)
(* from the phrases its rules look for.                                      *)

\* The most phrases one query is put together from.
MaxPhrases == 4

Phrases ==
    << "Show me", "all", "List", "active customers", "tickets", "and", "Update",
       "change", "email", "phone", "status", "What is", "priority", "help",
       "customer 7", "also", "then", "after", "xyzzy" >>

RECURSIVE JoinPhrases(_, _)
\* The phrases chosen by the index set S, from index i on, separated by spaces.
JoinPhrases(S, i) ==
    IF i > Len(Phrases) THEN ""
    ELSE IF i \in S
         THEN LET rest == JoinPhrases(S, i + 1)
              IN  IF rest = "" THEN Phrases[i] ELSE Phrases[i] \o " " \o rest
         ELSE JoinPhrases(S, i + 1)

PhraseQueries ==
    { JoinPhrases(S, 1) : S \in {T \in SUBSET (1..Len(Phrases)) : Cardinality(T) <= MaxPhrases} }

InitAnalyze ==
    /\ query \in PhraseQueries
    /\ analysis = <<>>
    /\ customers = <<>>
    /\ tickets = <<>>
    /\ Quiescent

Analyze ==
    /\ analysis = <<>>
    /\ analysis' = analyze_query(query)
    /\ UNCHANGED <<threads, query, pc, frame, inflight, reply, outcome, response,
                   coordination_log, clock, customers, tickets, dispatches,
                   completed, calls, faults, lastCall>>

NextAnalyze == Analyze

SpecAnalyze == InitAnalyze /\ [][NextAnalyze]_vars

-----------------------------------------------------------------------------
(* The classifier over queries that name customers in several ways *)

\* The most phrases one such query is put together from.
MaxIdPhrases == 3

\* Phrases that name a number, each with the number and the patterns of
\* extract_customer_id (1 "customer id N", 2 "id N", 3 "customer N") that match
\* inside it.
IdPhrases ==
    << [text |-> "customer id: 42", n |-> 42, matches |-> {1, 2}],
       [text |-> "Customer ID 6",   n |-> 6,  matches |-> {1, 2}],
       [text |-> "id 17",           n |-> 17, matches |-> {2}],
       [text |-> "ID:5",            n |-> 5,  matches |-> {2}],
       [text |-> "paid 30",         n |-> 30, matches |-> {2}],
       [text |-> "customer 8",      n |-> 8,  matches |-> {3}],
       [text |-> "I'm customer 3",  n |-> 3,  matches |-> {3}],
       [text |-> "order 66",        n |-> 66, matches |-> {}],
       [text |-> "needs help",      n |-> 0,  matches |-> {}] >>

\* The phrases of a query, in the order they stand in it: no phrase twice.
IdChoices ==
    { s \in UNION {[1..n -> 1..Len(IdPhrases)] : n \in 0..MaxIdPhrases} :
        \A i, j \in DOMAIN s : i # j => s[i] # s[j] }

RECURSIVE JoinIdPhrases(_, _)
JoinIdPhrases(s, i) ==
    IF i > Len(s) THEN ""
    ELSE IF i = Len(s) THEN IdPhrases[s[i]].text
    ELSE IdPhrases[s[i]].text \o " " \o JoinIdPhrases(s, i + 1)

InitExtract ==
    /\ query \in {JoinIdPhrases(s, 1) : s \in IdChoices}
    /\ analysis = <<>>
    /\ customers = <<>>
    /\ tickets = <<>>
    /\ Quiescent

SpecExtract == InitExtract /\ [][NextAnalyze]_vars

Analyzed == analysis # <<>>

QueryLower == lower(query)

\* The rules of the cascade, as conditions on the query alone.
Rule2 == In("active customers", QueryLower) /\ In("tickets", QueryLower)

Rule3 == data_can_handle(query) /\ support_can_handle(query)

Rule4 == \E k \in {"all", "list", "show me", "get all"} : In(k, QueryLower)

Rule5 == \E k \in {"and", "also", "then", "after"} : In(k, QueryLower)

Rule6 ==
    /\ In("update", QueryLower) \/ In("change", QueryLower)
    /\ In("email", QueryLower) \/ In("phone", QueryLower)

Rule7 ==
    /\ In("status", QueryLower) \/ In("what is", QueryLower)
    /\ In("ticket", QueryLower)
    /\ In("priority", QueryLower)

-----------------------------------------------------------------------------
(* Two callers on one RouterAgent, without synchronisation *)

\* The two callers.  Each calls clear_coordination_log() and then
\* process_query(query) on the same router; the router has no lock, so the
\* calls of one run between the calls of the other.  A step is what a caller
\* does between two handle_request calls.
Threads == {1, 2}

\* The queries of the callers.
ConcurrentQueries ==
    { "Get customer information for ID 2",
      "I'm customer 2 and need help upgrading my account",
      "xyzzy" }

InitConcurrent ==
    /\ threads \in [Threads ->
            { [ pc |-> "new", query |-> q, frame |-> <<>>, inflight |-> <<>>,
                reply |-> <<>>, outcome |-> "none", response |-> "",
                written |-> {}, disturbed |-> FALSE ] : q \in ConcurrentQueries }]
    /\ query = ""
    /\ analysis = <<>>
    /\ customers \in SeedCustomers
    /\ tickets = SeedTickets
    /\ pc = "idle"
    /\ frame = <<>>
    /\ inflight = <<>>
    /\ reply = <<>>
    /\ outcome = "none"
    /\ response = ""
    /\ coordination_log = <<>>
    /\ clock = 0
    /\ dispatches = <<>>
    /\ completed = 0
    /\ calls = <<>>
    /\ faults = 0
    /\ lastCall = "none"

\* The caller has logged the outbound entry of a request and not yet the
\* inbound entry of its response.
Dispatching(th) == th.pc \in {"waiting", "replied"}

\* The callers other than t that are dispatching have had another caller at
\* the log in the meantime (history).
Disturbing(t, ths) ==
    [u \in Threads |->
        IF u # t /\ Dispatching(ths[u]) THEN [ths[u] EXCEPT !.disturbed = TRUE]
        ELSE ths[u]]

\* The caller t goes on with the effect e of its strategy: the entries go to
\* the shared log, the rest to the locals of its call.  `written` keeps the
\* time stamps of the entries the caller appended (history).
ThreadContinue(t, e, before) ==
    LET entries == EffectEntries(before, e)
        th == threads[t]
    IN  /\ coordination_log' = append_log(coordination_log, entries, clock)
        /\ clock' = clock + Len(entries)
        /\ threads' =
             [ Disturbing(t, threads) EXCEPT ![t] =
                 [ th EXCEPT
                     !.pc = IF e.kind = "send" THEN "waiting" ELSE "done",
                     !.frame = IF e.kind = "send" THEN e.frame ELSE <<>>,
                     !.inflight = IF e.kind = "send" THEN e.requests ELSE <<>>,
                     !.reply = <<>>,
                     !.outcome = CASE e.kind = "send" -> "none"
                                   [] e.kind = "raise" -> "raised"
                                   [] OTHER -> "returned",
                     !.response = CASE e.kind = "return" -> e.text
                                    [] e.kind = "raise" -> e.exc \o ": " \o e.message
                                    [] OTHER -> "",
                     !.written = th.written
                                 \cup {clock + i - 1 : i \in 1..Len(entries)} ] ]

\* The caller t calls clear_coordination_log().
ThreadClear(t) ==
    /\ threads[t].pc = "new"
    /\ coordination_log' = clear_coordination_log(coordination_log)
    /\ threads' = [Disturbing(t, threads) EXCEPT ![t] = [threads[t] EXCEPT !.pc = "cleared"]]
    /\ UNCHANGED <<query, analysis, pc, frame, inflight, reply, outcome, response,
                   clock, customers, tickets, dispatches, completed, calls, faults,
                   lastCall>>

\* The caller t calls process_query(query).
ThreadProcess(t) ==
    /\ threads[t].pc = "cleared"
    /\ ThreadContinue(t, process_query(threads[t].query), <<>>)
    /\ UNCHANGED <<query, analysis, pc, frame, inflight, reply, outcome, response,
                   customers, tickets, dispatches, completed, calls, faults, lastCall>>

\* The provider handles the request of the caller t.
ThreadProvider(t) ==
    /\ threads[t].pc = "waiting"
    /\ \E h \in {handle_request(threads[t].inflight[1], customers, tickets, clock, FALSE)} :
           /\ threads' = [threads EXCEPT ![t] =
                             [threads[t] EXCEPT !.pc = "replied", !.reply = <<h.resp>>]]
           /\ customers' = h.customers
           /\ tickets' = h.tickets
    /\ UNCHANGED <<query, analysis, pc, frame, inflight, reply, outcome, response,
                   coordination_log, clock, dispatches, completed, calls, faults,
                   lastCall>>

\* handle_request returned to the caller t: the inbound entry is logged and
\* the strategy of its call goes on.
ThreadResume(t) ==
    /\ threads[t].pc = "replied"
    /\ LET th == threads[t]
       IN  ThreadContinue(t, resume(th.frame, th.query, analyze_query(th.query),
                                    th.reply[1]),
                          <<Inbound(th.inflight[1].to, th.reply[1])>>)
    /\ UNCHANGED <<query, analysis, pc, frame, inflight, reply, outcome, response,
                   customers, tickets, dispatches, completed, calls, faults, lastCall>>

NextConcurrent ==
    \E t \in Threads :
        ThreadClear(t) \/ ThreadProcess(t) \/ ThreadProvider(t) \/ ThreadResume(t)

SpecConcurrent == InitConcurrent /\ [][NextConcurrent]_vars

-----------------------------------------------------------------------------
(* Properties *)

\* C1: for every query and every combination of provider outcomes,
\* process_query returns a string and never raises, also when a SupportAgent
\* handle_query dispatch fails inside the negotiation of the complex strategy.
C1_ProcessNeverRaises == outcome # "raised"

\* The last analysed query matched no pattern at all: no capability keyword,
\* no customer id, no tier keyword.
Unmatched ==
    /\ analysis # <<>>
    /\ ~analysis.needs_data_agent
    /\ ~analysis.needs_support_agent
    /\ analysis.customer_id = None
    /\ analysis.complexity = "simple"

\* C2, as stated: for a query that matches no pattern at all, process_query
\* issues zero dispatches to either provider and returns a non-empty text.
C2_UnmatchedQueryNoDispatch ==
    Unmatched =>
        /\ inflight = <<>>
        /\ dispatches = <<>>
        /\ outcome = "returned" => response # ""

\* C2, amended: for a query that matches no pattern at all, process_query
\* issues exactly one dispatch, a SupportAgent handle_query that carries the
\* whole query, and none to the data agent; the text it returns is not empty:
\* the solution of the SupportAgent when the dispatch succeeded, "Error: " and
\* the error when it failed.
C2_UnmatchedQueryOneSupportDispatch ==
    Unmatched =>
        /\ \A i \in 1..Len(inflight) :
              inflight[i].to = "support" /\ inflight[i].action = "handle_query"
        /\ \A i \in 1..Len(dispatches) :
              /\ dispatches[i].to = "support"
              /\ dispatches[i].action = "handle_query"
              /\ dispatches[i].parameters = [query |-> query]
        /\ Len(inflight) + Len(dispatches) = 1
        /\ pc = "idle" =>
              /\ outcome = "returned"
              /\ Len(dispatches) = 1
              /\ response # ""
              /\ response = IF dispatches[1].response.success
                            THEN dispatches[1].response.result.solution
                            ELSE "Error: " \o dispatches[1].response.error

\* C2 happens: "xyzzy" was processed, its one dispatch succeeded.
C2_Witness ==
    /\ Unmatched /\ query = "xyzzy"
    /\ pc = "idle" /\ outcome = "returned"
    /\ Len(dispatches) = 1 /\ dispatches[1].response.success
    /\ response # ""

\* The entries of the log that route_to_*_agent appended before / after a
\* provider handled a request.
OutboundEntries ==
    { i \in 1..Len(get_coordination_log) :
        /\ get_coordination_log[i].kind = "A2A"
        /\ get_coordination_log[i].from = RouterName
        /\ In(" with params", get_coordination_log[i].message) }

InboundEntries ==
    { i \in 1..Len(get_coordination_log) :
        /\ get_coordination_log[i].kind = "A2A"
        /\ get_coordination_log[i].to = RouterName }

\* C3: at every point, when N dispatches completed since the log was last
\* cleared, the log holds at least 2N entries, an outbound and an inbound one
\* per dispatch, and the entries are in the order they were recorded in.
C3_TraceHoldsTwoEntriesPerDispatch ==
    /\ Len(get_coordination_log) >= 2 * completed
    /\ Cardinality(OutboundEntries) >= completed
    /\ Cardinality(InboundEntries) >= completed
    /\ \A i, j \in 1..Len(get_coordination_log) :
          i < j => get_coordination_log[i].ts < get_coordination_log[j].ts

\* C3 happens: the log was cleared after a call of two dispatches or more, and
\* in the next call one dispatch has completed and another is in flight.
C3_Witness ==
    /\ Len(calls) = 1
    /\ Len(calls[1].dispatches) >= 2
    /\ completed = 1
    /\ pc = "waiting"
    /\ Len(get_coordination_log) >= 2

\* C4: after clear_coordination_log the log is empty, whatever it held and
\* whatever was processed before.
C4_ClearLeavesTraceEmpty ==
    lastCall = "clear_coordination_log" => get_coordination_log = <<>>

\* C4 happens: the log is cleared after a call that dispatched.
C4_Witness ==
    /\ lastCall = "clear_coordination_log"
    /\ calls # <<>>
    /\ calls[Len(calls)].dispatches # <<>>
    /\ get_coordination_log = <<>>

\* C5: two process_query calls in a row with the same query, the providers
\* working and nothing else touching their state in between, return the same
\* text, for every query, update queries included.
C5_ProcessTwiceSameText ==
    \A i \in 1..(Len(calls) - 1) :
        (calls[i + 1].faults = 0 /\ calls[i].query = calls[i + 1].query) =>
            /\ calls[i].outcome = calls[i + 1].outcome
            /\ calls[i].text = calls[i + 1].text

\* C5 happens: an update query was processed twice and the update took effect.
C5_Witness ==
    /\ Len(calls) >= 2
    /\ calls[2].faults = 0
    /\ In("Update", calls[2].query)
    /\ In("updated to", calls[2].text)
    /\ calls[1].text = calls[2].text

\* C6: within one process_query call at most one dispatch is in flight: every
\* request gets exactly one response before the strategy issues the next one
\* or returns, also in the per-customer loops.
C6_AtMostOneDispatchInFlight ==
    /\ Len(inflight) <= 1
    /\ Len(reply) <= 1
    /\ pc = "idle" => inflight = <<>> /\ reply = <<>>
    /\ pc = "waiting" => Len(inflight) = 1 /\ reply = <<>>
    /\ pc = "replied" => Len(inflight) = 1 /\ Len(reply) = 1

\* C6 happens: the strategy waits for the history of the second customer of
\* the active-customers loop.
C6_Witness ==
    /\ pc = "waiting"
    /\ frame.strategy = "multi-step" /\ frame.label = "active_history"
    /\ frame.i >= 2
    /\ Len(inflight) = 1

\* C7: route_to_data_agent / route_to_support_agent never raises: whatever the
\* action and the parameters, and whether the operation of the provider
\* succeeds or raises inside the provider, the response has a success flag; an
\* operation that raised comes back as success False with the text of the
\* exception as error, one that did not as success True with a result.
C7_DispatchNeverRaises ==
    /\ outcome # "raised"
    /\ \A i \in 1..Len(dispatches) :
          /\ "success" \in DOMAIN dispatches[i].response
          /\ dispatches[i].response.success \in BOOLEAN
          /\ dispatches[i].response.success <=> dispatches[i].exception = <<>>
          /\ dispatches[i].response.success => "result" \in DOMAIN dispatches[i].response
          /\ ~dispatches[i].response.success =>
                /\ "error" \in DOMAIN dispatches[i].response
                /\ dispatches[i].response.error # ""
                /\ dispatches[i].response.error = dispatches[i].exception[2]

\* C7 happens: one dispatch lacked a parameter, the provider failed in another.
C7_Witness ==
    /\ pc = "idle"
    /\ lastCall = "route_to_agent"
    /\ faults = 1
    /\ Len(dispatches) = 2
    /\ dispatches[1].exception = <<"KeyError", "'customer_id'">>
    /\ ~dispatches[1].response.success
    /\ dispatches[2].exception = <<"ValueError", "no such table: customers">>
    /\ ~dispatches[2].response.success

\* C8: every query that contains both "active customers" and "tickets" is
\* classified multi-step, whatever else it contains.
C8_ActiveCustomersTicketsMultiStep ==
    (Analyzed /\ Rule2) => analysis.complexity = "multi-step"

\* C8 happens: an analysed query with both phrases, a listing keyword, both
\* capabilities and none of the later multi-step rules.
C8_Witness ==
    /\ Analyzed /\ Rule2 /\ Rule3 /\ Rule4
    /\ ~Rule5 /\ ~Rule6 /\ ~Rule7
    /\ analysis.complexity = "multi-step"

\* C9: every query that contains "and", "also", "then" or "after" is
\* classified multi-step, also when rule 3 or rule 4 had made it complex.
C9_SequencingKeywordMultiStep ==
    (Analyzed /\ Rule5) => analysis.complexity = "multi-step"

\* C9 happens: a sequencing keyword overrides an otherwise complex query.
C9_Witness ==
    /\ Analyzed /\ Rule5 /\ ~Rule2 /\ (Rule3 \/ Rule4)
    /\ analysis.complexity = "multi-step"

\* C10: the tier is simple exactly when no rule fires, complex exactly when
\* rule 3 or 4 fires and none of rules 2, 5, 6, 7, and multi-step otherwise.
C10_TierIsCascade ==
    Analyzed =>
        /\ analysis.complexity \in {"simple", "complex", "multi-step"}
        /\ analysis.complexity = "simple"
             <=> ~(Rule2 \/ Rule3 \/ Rule4 \/ Rule5 \/ Rule6 \/ Rule7)
        /\ analysis.complexity = "complex"
             <=> ((Rule3 \/ Rule4) /\ ~(Rule2 \/ Rule5 \/ Rule6 \/ Rule7))
        /\ analysis.complexity = "multi-step"
             <=> (Rule2 \/ Rule5 \/ Rule6 \/ Rule7)

\* C10 happens: a query made complex by rule 4 alone.
C10_Witness ==
    /\ Analyzed /\ Rule4 /\ ~Rule3
    /\ ~(Rule2 \/ Rule5 \/ Rule6 \/ Rule7)
    /\ analysis.complexity = "complex"

\* query.lower() of every query of the session, computed once.
LoweredQueries == [q \in Queries |-> lower(q)]

\* query_lower of the query of the session.
query_lower == LoweredQueries[query]

\* The phrases of a customer-information query.
InfoPhrases == {"get customer", "show me customer", "customer information"}

\* The last analysed query is a simple-tier customer-information query with
\* an extracted customer id.
CustomerInfoQuery ==
    /\ analysis # <<>>
    /\ analysis.complexity = "simple"
    /\ analysis.customer_id # None
    /\ AnyIn(InfoPhrases, query_lower)

\* The query is a what-is question that names one field of the record.
FieldQuestion ==
    /\ AnyIn({"what is", "what's"}, query_lower)
    /\ AnyIn({"name", "email", "phone", "status"}, query_lower)

\* The text holds the name, email, phone and status of the record.
ShowsRecord(text, record) ==
    /\ In(record.name, text)
    /\ In(record.email, text)
    /\ In(record.phone, text)
    /\ In(record.status, text)

\* The dispatches issued so far in the current call, answered or not.
Issued ==
    [i \in 1..Len(dispatches) |->
        [to |-> dispatches[i].to, action |-> dispatches[i].action,
         parameters |-> dispatches[i].parameters]]
    \o [i \in 1..Len(inflight) |->
        [to |-> inflight[i].to, action |-> inflight[i].action,
         parameters |-> inflight[i].parameters]]

\* The current call has returned (or raised).
CallEnded == pc = "idle" /\ lastCall # "route_to_agent" /\ analysis # <<>>

\* C11, as stated: for a simple-tier customer-information query with an
\* extracted customer id N, process_query issues exactly one dispatch,
\* get_customer with customer_id N to the data agent, none to the support
\* agent, and on success the text holds the record's name, email, phone and
\* status.
C11_CustomerInfoOneDispatch_AsStated ==
    CustomerInfoQuery =>
        /\ \A i \in 1..Len(Issued) :
              Issued[i] = [to |-> "data", action |-> "get_customer",
                           parameters |-> [customer_id |-> analysis.customer_id[1]]]
        /\ CallEnded =>
              /\ Len(dispatches) = 1
              /\ dispatches[1].response.success =>
                    ShowsRecord(response, dispatches[1].response.result)

\* C11, amended: the same for N other than 0; the text holds all four fields
\* unless the query is also a what-is question naming one field, which is
\* answered with that field alone.  With N = 0 the query goes to the support
\* agent like a query without an id.
C11_CustomerInfoOneDispatch ==
    (CustomerInfoQuery /\ analysis.customer_id # Some(0)) =>
        /\ \A i \in 1..Len(Issued) :
              Issued[i] = [to |-> "data", action |-> "get_customer",
                           parameters |-> [customer_id |-> analysis.customer_id[1]]]
        /\ CallEnded =>
              /\ Len(dispatches) = 1
              /\ outcome = "returned"
              /\ (dispatches[1].response.success /\ ~FieldQuestion) =>
                    ShowsRecord(response, dispatches[1].response.result)

\* C11 happens: "Get customer information for ID 2" was answered with the
\* record of customer 2.
C11_Witness ==
    /\ CustomerInfoQuery /\ CallEnded
    /\ query = "Get customer information for ID 2"
    /\ Len(dispatches) = 1
    /\ dispatches[1].response.success
    /\ dispatches[1].response.result.id = 2
    /\ ShowsRecord(response, dispatches[1].response.result)


\* The condition of the k-th case of handle_multi_step_query for a query with
\* lower-cased text ql and extracted customer id `id`, in the order of the
\* code: 1 analytical ticket query, 2 active customers with tickets, 3 update
\* email, 4 update phone, 5 change email, 6 ticket history, 7 help.
CaseCondition(ql, id, k) ==
    CASE k = 1 -> (In("what is", ql) \/ In("status", ql)) /\ In("ticket", ql)
                  /\ In("priority", ql)
      [] k = 2 -> In("active customers", ql) /\ In("tickets", ql)
      [] k = 3 -> In("update", ql) /\ In("email", ql) /\ Truthy(id)
      [] k = 4 -> In("update", ql) /\ In("phone", ql) /\ Truthy(id)
      [] k = 5 -> (In("change", ql) \/ In("update", ql)) /\ In("email", ql) /\ Truthy(id)
      [] k = 6 -> (In("ticket", ql) \/ In("history", ql)) /\ Truthy(id)
      [] k = 7 -> Truthy(id) /\ AnyIn(HelpWords, ql)

\* The last analysed query runs the multi-step strategy.
MultiStep == analysis # <<>> /\ analysis.complexity = "multi-step"

\* The cases whose condition the query q meets, with the id
\* extract_customer_id finds in it (the customer_id of its analysis), and the
\* literals the update cases look for in it; computed once for every query of
\* the session.
QueryCases ==
    [q \in Queries |->
        [ met   |-> {k \in 1..7 : CaseCondition(lower(q), extract_customer_id(q), k)},
          email |-> Search(PatEmail, q),
          phone |-> Search(PatPhone, q) ]]

\* The case of handle_multi_step_query that handles the query of the session:
\* the first whose condition holds, 0 when none does.
FirstCase ==
    IF QueryCases[query].met # {}
    THEN CHOOSE k \in QueryCases[query].met : \A j \in QueryCases[query].met : k <= j
    ELSE 0

\* re.search of the address in the query of the session
email_match == QueryCases[query].email

\* re.search of the phone fragment in the query of the session
phone_match == QueryCases[query].phone

\* The update_customer dispatch of customer n with the one field updated.
UpdateOf(n, updates) ==
    [to |-> "data", action |-> "update_customer",
     parameters |-> [customer_id |-> n, updates |-> updates]]

\* What C12 says of a query whose phone fragment is P: the only dispatch is
\* update_customer of the customer with updates = {phone: P}, and on success
\* the text holds P and the name and email of the record the update returned.
PhoneUpdateDone(P) ==
    /\ \A i \in 1..Len(Issued) :
          Issued[i] = UpdateOf(analysis.customer_id[1], [phone |-> P])
    /\ CallEnded =>
          /\ Len(dispatches) = 1
          /\ outcome = "returned"
          /\ dispatches[1].response.success =>
                /\ dispatches[1].response.result.phone = P
                /\ In(P, response)
                /\ In(dispatches[1].response.result.name, response)
                /\ In(dispatches[1].response.result.email, response)

\* C12, as stated: for an update-phone query with a customer id N and an
\* extractable phone fragment P, process_query issues an update_customer
\* dispatch with customer_id N and updates {phone: P}, and on success the text
\* holds P and the name and email of the refreshed record.
C12_UpdatePhone_AsStated ==
    ( /\ MultiStep
      /\ In("update", query_lower) /\ In("phone", query_lower)
      /\ analysis.customer_id # None
      /\ phone_match # None )
    => PhoneUpdateDone(phone_match[1])

\* C12, amended: the same for the queries the update-phone case handles, that
\* is with N other than 0 and no earlier case matching (the query does not
\* mention email, and is no analytical or active-customers query).
C12_UpdatePhone ==
    (MultiStep /\ FirstCase = 4 /\ phone_match # None)
    => PhoneUpdateDone(phone_match[1])

\* C12 happens: "Update customer 3 phone to 555-9999" updated the phone of
\* customer 3 and the text shows the refreshed record.
C12_Witness ==
    /\ MultiStep /\ FirstCase = 4 /\ CallEnded
    /\ query = "Update customer 3 phone to 555-9999"
    /\ Len(dispatches) = 1
    /\ dispatches[1].parameters = [customer_id |-> 3, updates |-> [phone |-> "555-9999"]]
    /\ dispatches[1].response.success
    /\ customers[3].phone = "555-9999"
    /\ In("555-9999", response) /\ In("Name3", response)


\* C13: in the help case of the multi-step strategy the first dispatch is
\* get_customer of the customer to the data agent; a dispatch to the support
\* agent comes only second, after get_customer succeeded, and it is
\* handle_query carrying as customer_data exactly the record get_customer
\* returned.
C13_HelpFetchesCustomerFirst ==
    (MultiStep /\ FirstCase = 7) =>
        /\ Len(Issued) <= 2
        /\ Len(Issued) >= 1 =>
              Issued[1] = [to |-> "data", action |-> "get_customer",
                           parameters |-> [customer_id |-> analysis.customer_id[1]]]
        /\ Len(Issued) = 2 =>
              /\ dispatches[1].response.success
              /\ Issued[2] = [to |-> "support", action |-> "handle_query",
                              parameters |-> [query |-> query,
                                              customer_data |-> dispatches[1].response.result]]
        /\ CallEnded => Len(dispatches) = (IF dispatches[1].response.success THEN 2 ELSE 1)

\* C13 happens: "I'm customer 2 and need help upgrading my account" fetched
\* the record of customer 2, and the support agent answered with it.
C13_Witness ==
    /\ MultiStep /\ FirstCase = 7 /\ CallEnded
    /\ Len(dispatches) = 2
    /\ dispatches[1].response.result.id = 2
    /\ dispatches[2].to = "support"
    /\ dispatches[2].parameters.customer_data = dispatches[1].response.result
    /\ dispatches[2].response.success
    /\ In("Hello Name2!", response)


\* The last analysed query runs the negotiation: the complex strategy with
\* none of its three special cases matching.
Negotiating ==
    LET ql == query_lower
        id == analysis.customer_id
    IN  /\ analysis # <<>>
        /\ analysis.complexity = "complex"
        /\ ~((In("ticket", ql) \/ In("history", ql)) /\ Truthy(id))
        /\ ~(In("list", ql) /\ In("customer", ql))
        /\ ~(In("show", ql) /\ In("customer", ql) /\ Truthy(id))

\* C14: the dispatches of the negotiation are a prefix of: handle_query
\* without context to the support agent, get_customer of the extracted id to
\* the data agent, handle_query with the fetched record to the support agent.
\* The second is issued only if the first succeeded with
\* needs_customer_context set and a customer id was extracted, the third only
\* if the second succeeded; so at most two support dispatches and one data
\* dispatch.
C14_NegotiationIsTwoRounds ==
    Negotiating =>
        /\ Len(Issued) <= 3
        /\ Len(Issued) >= 1 =>
              /\ analysis.needs_support_agent
              /\ Issued[1] = [to |-> "support", action |-> "handle_query",
                              parameters |-> [query |-> query]]
        /\ Len(Issued) >= 2 =>
              /\ dispatches[1].response.success
              /\ "needs_customer_context" \in DOMAIN dispatches[1].response.result
              /\ dispatches[1].response.result.needs_customer_context
              /\ analysis.customer_id # None
              /\ Issued[2] = [to |-> "data", action |-> "get_customer",
                              parameters |-> [customer_id |-> analysis.customer_id[1]]]
        /\ Len(Issued) = 3 =>
              /\ dispatches[2].response.success
              /\ Issued[3] = [to |-> "support", action |-> "handle_query",
                              parameters |-> [query |-> query,
                                              customer_data |-> dispatches[2].response.result]]

\* C14 happens: a negotiation went through both rounds.
C14_Witness ==
    /\ Negotiating /\ CallEnded
    /\ Len(dispatches) = 3
    /\ dispatches[1].to = "support" /\ dispatches[2].to = "data"
    /\ dispatches[3].to = "support"
    /\ dispatches[3].response.success


\* The last analysed query runs the simple strategy.
Simple == analysis # <<>> /\ analysis.complexity = "simple"

\* C15: every execution of the simple strategy issues at least one and at
\* most two dispatches, whichever path it takes and whether the responses are
\* successes or failures.
C15_SimpleOneOrTwoDispatches ==
    Simple =>
        /\ Len(Issued) <= 2
        /\ pc # "idle" => Len(Issued) >= 1
        /\ CallEnded => Len(dispatches) \in 1..2

\* C15 happens: a simple query ended after a failure response to its
\* dispatch.
C15_Witness ==
    /\ Simple /\ CallEnded
    /\ outcome = "returned"
    /\ Len(dispatches) = 1
    /\ ~dispatches[1].response.success


\* The case of handle_multi_step_query whose code awaits a response, from the
\* position the router is at.
RunningCase ==
    CASE frame.label \in {"analytic_customers", "analytic_history"} -> 1
      [] frame.label \in {"active_customers", "active_history"} -> 2
      [] frame.label \in {"email_update", "email_history"} -> 3
      [] frame.label = "phone_update" -> 4
      [] frame.label = "email_change" -> 5
      [] frame.label = "history" -> 6
      [] frame.label \in {"help_customer", "help_support"} -> 7
      [] OTHER -> 0

\* The dispatch d is one the k-th case issues.
CaseIssues(k, d) ==
    CASE k \in {1, 2} ->
            d.to = "data" /\ d.action \in {"get_premium_customers", "get_history"}
      [] k = 3 ->
            /\ d.to = "data"
            /\ \/ d.action = "update_customer" /\ DOMAIN d.parameters.updates = {"email"}
               \/ d.action = "get_history"
      [] k = 4 ->
            /\ d.to = "data" /\ d.action = "update_customer"
            /\ DOMAIN d.parameters.updates = {"phone"}
      [] k = 5 ->
            /\ d.to = "data" /\ d.action = "update_customer"
            /\ DOMAIN d.parameters.updates = {"email"}
      [] k = 6 -> d.to = "data" /\ d.action = "get_history"
      [] k = 7 ->
            \/ d.to = "data" /\ d.action = "get_customer"
            \/ d.to = "support" /\ d.action = "handle_query"
      [] OTHER -> FALSE

\* C16: an execution of the multi-step strategy runs at most one case, the
\* first whose condition holds in the order analytical-ticket,
\* active-customers-with-tickets, update-email, update-phone, change-email,
\* ticket-history, help; every dispatch it issues is one of that case, and
\* none is issued when no condition holds.
C16_FirstMatchingCaseOnly ==
    MultiStep =>
        /\ \A i \in 1..Len(Issued) : CaseIssues(FirstCase, Issued[i])
        /\ frame # <<>> => frame.strategy = "multi-step" /\ RunningCase = FirstCase

\* C16 happens: a query that meets the conditions of the update-email, the
\* change-email and the ticket-history case was handled by the update-email
\* case alone.
C16_Witness ==
    /\ MultiStep /\ CallEnded
    /\ FirstCase = 3 /\ {5, 6} \subseteq QueryCases[query].met
    /\ Len(dispatches) = 2
    /\ dispatches[1].action = "update_customer"
    /\ dispatches[2].action = "get_history"


\* The number of places where k occurs in s.
Occurrences(k, s) == Cardinality({i \in 1..Len(s) : LitAt(k, s, i)})

Min(a, b) == IF a <= b THEN a ELSE b

\* The priority the analytical ticket query asks for, "" when it names none.
PriorityKeyword ==
    LET ql == query_lower
    IN  IF In("high", ql) THEN "high"
        ELSE IF In("medium", ql) THEN "medium"
        ELSE IF In("low", ql) THEN "low"
        ELSE ""

\* The customers the first dispatch of the call returned.
Returned == dispatches[1].response.result

\* Dispatches 2.. of the call ask for the histories of the first `cap`
\* returned customers, in list order, after a get_premium_customers dispatch
\* that is the first; nothing follows a failed get_premium_customers.
FetchesHistoriesOfFirst(cap) ==
    /\ Len(Issued) >= 1 =>
          Issued[1] = [to |-> "data", action |-> "get_premium_customers",
                       parameters |-> <<>>]
    /\ \A i \in 2..Len(Issued) :
          /\ dispatches[1].response.success
          /\ i - 1 <= Min(cap, Len(Returned))
          /\ Issued[i] = [to |-> "data", action |-> "get_history",
                          parameters |-> [customer_id |-> Returned[i - 1].id]]
    /\ CallEnded =>
          /\ outcome = "returned"
          /\ Len(dispatches) = (IF dispatches[1].response.success
                                THEN 1 + Min(cap, Len(Returned)) ELSE 1)

RECURSIVE MatchingUpTo(_)
\* The tickets of the histories answered by dispatches 2..i that match the
\* priority keyword, in the order they were received.
MatchingUpTo(i) ==
    IF i < 2 THEN <<>>
    ELSE MatchingUpTo(i - 1)
         \o (IF dispatches[i].response.success
             THEN Filter(dispatches[i].response.result,
                         LAMBDA t : PriorityKeyword = "" \/ t.priority = PriorityKeyword)
             ELSE <<>>)

\* C17: the analytical ticket case issues one get_premium_customers dispatch,
\* then get_history for exactly the first min(10, n) of the n returned
\* customers in list order; it keeps the tickets matching the priority
\* keyword (all when there is none), reports their number and lists at most
\* 10 of them.
C17_AnalyticFetchesFirstTen ==
    (MultiStep /\ FirstCase = 1) =>
        /\ FetchesHistoriesOfFirst(10)
        /\ (CallEnded /\ dispatches[1].response.success) =>
              LET matching == MatchingUpTo(Len(dispatches))
              IN  IF matching = <<>>
                  THEN In("tickets found.", response) /\ Occurrences("Priority: ", response) = 0
                  ELSE /\ In("Found " \o ToString(Len(matching)) \o " ", response)
                       /\ Occurrences("    Priority: ", response) = Min(10, Len(matching))
                       /\ \A k \in 1..Min(10, Len(matching)) :
                             In("] " \o matching[k].issue \o "\n    Priority: "
                                \o matching[k].priority, response)

\* C17 happens: more than 10 customers were returned, the histories of the
\* first 10 were fetched, more than 10 tickets matched and 10 are listed.
C17_Witness ==
    /\ MultiStep /\ FirstCase = 1 /\ CallEnded
    /\ dispatches[1].response.success
    /\ Len(Returned) > 10
    /\ Len(dispatches) = 11
    /\ Len(MatchingUpTo(11)) > 10
    /\ In("Found " \o ToString(Len(MatchingUpTo(11))) \o " tickets", response)
    /\ Occurrences("    Priority: ", response) = 10


\* The number of tickets with status open in the history dispatch i returned,
\* 0 when it failed.
OpenIn(i) ==
    IF dispatches[i].response.success
    THEN Cardinality({k \in 1..Len(dispatches[i].response.result) :
                          dispatches[i].response.result[k].status = "open"})
    ELSE 0

RECURSIVE ReportedUpTo(_)
\* The report lines of the customers whose history dispatches 2..i returned
\* with an open ticket, in list order.
ReportedUpTo(i) ==
    IF i < 2 THEN <<>>
    ELSE ReportedUpTo(i - 1)
         \o (IF OpenIn(i) > 0
             THEN << "- " \o Returned[i - 1].name \o ": " \o ToString(OpenIn(i))
                     \o " open ticket(s)" >>
             ELSE <<>>)

\* C18: the active-customers case issues one get_premium_customers dispatch,
\* then get_history for exactly the first min(5, n) of the n returned
\* customers in list order; it reports exactly those of them whose history
\* has a ticket with status open, in list order, each with its number of open
\* tickets.
C18_ActiveFetchesFirstFive ==
    (MultiStep /\ FirstCase = 2) =>
        /\ FetchesHistoriesOfFirst(5)
        /\ (CallEnded /\ dispatches[1].response.success) =>
              LET reported == ReportedUpTo(Len(dispatches))
              IN  /\ Occurrences(" open ticket(s)", response) = Len(reported)
                  /\ reported # <<>> => In("\n" \o Join(reported, "\n"), response)
                  /\ reported = <<>> =>
                        In("No active customers with open tickets found.", response)

\* C18 happens: more than 5 customers were returned, the histories of the
\* first 5 were fetched, and those with open tickets are reported, the third
\* of the list, who has none, not among them.
C18_Witness ==
    /\ MultiStep /\ FirstCase = 2 /\ CallEnded
    /\ dispatches[1].response.success
    /\ Len(Returned) > 5
    /\ Len(dispatches) = 6
    /\ OpenIn(4) = 0
    /\ Len(ReportedUpTo(6)) = 4
    /\ Occurrences(" open ticket(s)", response) = 4


\* C19: when the update-email, update-phone or change-email case cannot
\* extract the address or the phone fragment from the query, process_query
\* issues no dispatch for that query, neither the update nor the history
\* fetch, and returns the text that reports the extraction failure.
C19_ExtractionFailureNoDispatch ==
    /\ (MultiStep /\ FirstCase \in {3, 5} /\ email_match = None) =>
          /\ Issued = <<>>
          /\ pc = "idle"
          /\ outcome = "returned"
          /\ response = "Could not extract email address from query"
    /\ (MultiStep /\ FirstCase = 4 /\ phone_match = None) =>
          /\ Issued = <<>>
          /\ pc = "idle"
          /\ outcome = "returned"
          /\ response = "Could not extract phone number from query"

\* C19 happens: an update-email query that also asks for the ticket history
\* holds no address, and ended without any dispatch.
C19_Witness ==
    /\ MultiStep /\ FirstCase = 3 /\ CallEnded
    /\ email_match = None
    /\ In("history", query_lower)
    /\ dispatches = <<>>
    /\ response = "Could not extract email address from query"


\* The get_history dispatch of customer n.
HistoryOf(n) ==
    [to |-> "data", action |-> "get_history", parameters |-> [customer_id |-> n]]

\* The query mentions history or ticket.
MentionsHistory == In("history", query_lower) \/ In("ticket", query_lower)

\* C20: in the update-email case with an extracted address the
\* update_customer dispatch is the first, and a get_history dispatch for the
\* same customer follows if and only if the query mentions history or ticket,
\* whether the update succeeded or failed; the change-email case issues the
\* update alone, never a history fetch.
C20_HistoryFollowsEmailUpdate ==
    /\ (MultiStep /\ FirstCase = 3 /\ email_match # None) =>
          /\ Len(Issued) \in 1..2
          /\ Issued[1] = UpdateOf(analysis.customer_id[1],
                                  [email |-> email_match[1]])
          /\ Len(Issued) = 2 =>
                MentionsHistory /\ Issued[2] = HistoryOf(analysis.customer_id[1])
          /\ CallEnded => Len(dispatches) = (IF MentionsHistory THEN 2 ELSE 1)
    /\ (MultiStep /\ FirstCase = 5 /\ email_match # None) =>
          /\ Len(Issued) = 1
          /\ Issued[1] = UpdateOf(analysis.customer_id[1],
                                  [email |-> email_match[1]])

\* C20 happens: the update of the email failed, and the ticket history the
\* query asks for was fetched all the same.
C20_Witness ==
    /\ MultiStep /\ FirstCase = 3 /\ CallEnded
    /\ MentionsHistory
    /\ Len(dispatches) = 2
    /\ dispatches[1].action = "update_customer"
    /\ ~dispatches[1].response.success
    /\ dispatches[2].action = "get_history"
    /\ dispatches[2].response.success


Logged(prefix, log) ==
    Cardinality({i \in 1..Len(log) : LitAt(prefix, log[i].message, 1)})

\* What the strategy of a tier logs when it starts.
StrategyLog(tier) ==
    CASE tier = "simple" -> "Handling simple query"
      [] tier = "multi-step" -> "Handling multi-step query"
      [] tier = "complex" -> "Handling complex query with agent coordination"

\* The step is a call of process_query.
CallStarts == pc = "idle" /\ (pc' # "idle" \/ Len(calls') > Len(calls))

\* C22: a process_query call classifies the query once and runs one
\* strategy, that of the computed tier: the step that starts the call logs
\* one "Analyzing query" entry and one "Handling" entry, that of the tier of
\* the analysis of the query; while the call runs the analysis does not
\* change, no further entry of either kind is logged, and the strategy
\* awaiting a response is that of the tier.
C22_OneClassificationOneStrategy ==
    [][ /\ CallStarts =>
            /\ analysis' = analyze_query(query)
            /\ Logged("Analyzing query: ", coordination_log')
                 = Logged("Analyzing query: ", coordination_log) + 1
            /\ Logged("Handling ", coordination_log')
                 = Logged("Handling ", coordination_log) + 1
            /\ Logged(StrategyLog(analysis'.complexity), coordination_log')
                 = Logged(StrategyLog(analysis'.complexity), coordination_log) + 1
        /\ pc # "idle" =>
            /\ analysis' = analysis
            /\ Logged("Analyzing query: ", coordination_log')
                 = Logged("Analyzing query: ", coordination_log)
            /\ Logged("Handling ", coordination_log')
                 = Logged("Handling ", coordination_log)
        /\ frame' # <<>> => frame'.strategy = analysis'.complexity
      ]_vars

\* C22 happens: a multi-step call ended after two dispatches with the
\* analysis of its query and one "Handling" entry, that of the multi-step
\* strategy, in the log.
C22_Witness ==
    /\ CallEnded /\ MultiStep
    /\ Len(calls) = 1
    /\ Len(dispatches) >= 2
    /\ analysis = analyze_query(query)
    /\ Logged("Handling ", coordination_log) = 1
    /\ Logged("Handling multi-step query", coordination_log) = 1


\* Dispatch i is an update_customer dispatch that succeeded.
UpdateSucceeded(i) ==
    /\ dispatches[i].to = "data"
    /\ dispatches[i].action = "update_customer"
    /\ dispatches[i].response.success

\* Dispatch j is a get_customer dispatch for customer c that returned a record.
ReadOf(j, c) ==
    /\ dispatches[j].to = "data"
    /\ dispatches[j].action = "get_customer"
    /\ dispatches[j].parameters = [customer_id |-> c]
    /\ dispatches[j].response.success

\* C23: after an update_customer dispatch for customer c with updates {f: v}
\* succeeded, its payload is the record of c with f = v, and the next
\* get_customer dispatch for c that returns a record returns one with f = v
\* (when no other update of f for c succeeded in between).
C23_UpdateVisibleToNextRead ==
    \A i \in 1..Len(dispatches) :
        UpdateSucceeded(i) =>
            LET c == dispatches[i].parameters.customer_id
                updates == dispatches[i].parameters.updates
            IN  /\ dispatches[i].response.result.id = c
                /\ \A f \in DOMAIN updates : dispatches[i].response.result[f] = updates[f]
                /\ \A j \in (i + 1)..Len(dispatches) :
                      ( /\ ReadOf(j, c)
                        /\ \A k \in (i + 1)..(j - 1) : ~ReadOf(k, c) )
                      => \A f \in DOMAIN updates :
                            \/ dispatches[j].response.result[f] = updates[f]
                            \/ \E k \in (i + 1)..(j - 1) :
                                  /\ UpdateSucceeded(k)
                                  /\ dispatches[k].parameters.customer_id = c
                                  /\ f \in DOMAIN dispatches[k].parameters.updates

\* C23 happens: the email of customer 2 was updated, and the get_customer
\* dispatch after it returned the record with the new email, the record the
\* update had returned.
C23_Witness ==
    /\ Len(dispatches) = 2
    /\ UpdateSucceeded(1)
    /\ dispatches[1].parameters = [customer_id |-> 2, updates |-> [email |-> "two@new.org"]]
    /\ ReadOf(2, 2)
    /\ dispatches[2].response.result.email = "two@new.org"
    /\ dispatches[2].response.result = dispatches[1].response.result


\* The phrases of IdPhrases that stand in the query and hold a match of
\* pattern r.
Matching(r) ==
    {p \in 1..Len(IdPhrases) :
        r \in IdPhrases[p].matches /\ In(lower(IdPhrases[p].text), QueryLower)}

\* Where the phrase p stands in the query.
PlaceOf(p) == CHOOSE i \in 1..Len(QueryLower) : LitAt(lower(IdPhrases[p].text), QueryLower, i)

\* The number the leftmost match of pattern r captures.
LeftmostOf(r) ==
    IdPhrases[CHOOSE p \in Matching(r) : \A o \in Matching(r) : PlaceOf(p) <= PlaceOf(o)].n

\* C24: extract_customer_id returns the number captured by the
\* highest-priority pattern that matches anywhere in the query, in the order
\* "customer id N", "id N", "customer N", "I'm customer N", even when a pattern
\* of lower priority matches earlier in the text, and no identifier when no
\* pattern matches; so a query with "customer N" and no match of a pattern of
\* higher priority yields N.
C24_HighestPriorityPatternWins ==
    Analyzed =>
        analysis.customer_id =
            IF Matching(1) # {} THEN Some(LeftmostOf(1))
            ELSE IF Matching(2) # {} THEN Some(LeftmostOf(2))
            ELSE IF Matching(3) # {} THEN Some(LeftmostOf(3))
            ELSE None

\* C24 happens: "customer 8" stands before "id 17" in the query, and the id
\* extracted is 17.
C24_Witness ==
    /\ Analyzed
    /\ query = "customer 8 id 17"
    /\ analysis.customer_id = Some(17)


\* The dispatches of the call that answered with success False.
FailedDispatches ==
    {i \in 1..Len(dispatches) :
        /\ "success" \in DOMAIN dispatches[i].response
        /\ ~dispatches[i].response.success}

\* The call returned a text in which the error of the failed dispatch i stands.
ErrorShown(i) ==
    /\ CallEnded
    /\ outcome = "returned"
    /\ i \in FailedDispatches
    /\ In(dispatches[i].response.error, response)

\* What the strategy writes in front of the error of the dispatch d: the three
\* update cases of the multi-step strategy name the update that failed.
ErrorPrefix(d) ==
    IF MultiStep /\ d.action = "update_customer"
    THEN CASE FirstCase = 3 -> "Error updating email: "
           [] FirstCase = 4 -> "Error updating phone: "
           [] OTHER -> "Error changing email: "
    ELSE "Error: "

\* C25 as stated: whenever the error message of a failed dispatch appears in
\* the text process_query returns, it stands there as "Error: " immediately
\* followed by the message, in every strategy and handler.
C25_ErrorRendering_AsStated ==
    \A i \in 1..Len(dispatches) :
        ErrorShown(i) => In("Error: " \o dispatches[i].response.error, response)

\* C25: whenever the error message of a failed dispatch appears in the text
\* process_query returns, it stands there immediately after "Error: ", except
\* in the three update cases of the multi-step strategy, where a failed
\* update_customer dispatch is rendered as "Error updating email: ",
\* "Error updating phone: " or "Error changing email: " followed by the message.
C25_ErrorRendering ==
    \A i \in 1..Len(dispatches) :
        ErrorShown(i) =>
            In(ErrorPrefix(dispatches[i]) \o dispatches[i].response.error, response)

\* C25 happens: the email update of the multi-step strategy failed and the
\* text returned names the update in front of the error.
C25_Witness ==
    /\ ErrorShown(1)
    /\ MultiStep
    /\ FirstCase = 3
    /\ dispatches[1].action = "update_customer"
    /\ response = "Error updating email: " \o dispatches[1].response.error


\* The actions handle_request of each agent implements.
Implemented(to) ==
    IF to = "data"
    THEN {"get_customer", "list_customers", "update_customer", "get_history",
          "validate_customer", "get_premium_customers"}
    ELSE {"create_ticket", "handle_query", "analyze_urgency", "detect_intents"}

Unknown(request) == request.action \notin Implemented(request.to)

\* The provider answers the request in flight in this step.
Answers == pc = "waiting" /\ pc' = "replied"

\* C26: a dispatch that names an action the provider does not implement is
\* answered with success False and an error text (naming the action, unless
\* the provider itself was down), for this dispatch alone: the request does
\* nothing to the customers and the tickets, and the next dispatch to the
\* same provider is answered as it is answered without the unknown one
\* before it.
C26_UnknownActionFailsAlone ==
    /\ [][ (Answers /\ Unknown(inflight[1])) =>
              /\ customers' = customers
              /\ tickets' = tickets
              /\ ~reply'[1].resp.success
              /\ reply'[1].resp.agent = AgentName(inflight[1].to)
              /\ reply'[1].resp.error # ""
              /\ faults' = faults =>
                    reply'[1].resp.error = "Unknown action: " \o inflight[1].action ]_vars
    /\ [](  (/\ Len(dispatches) >= 2
             /\ Unknown(dispatches[1])
             /\ dispatches[2].to = dispatches[1].to)
          => \E c0 \in SeedCustomers, f \in BOOLEAN, t \in 0..clock :
               LET d == dispatches[2]
                   h == handle_request(Request(d.to, d.action, d.parameters),
                                       c0, SeedTickets, t, f)
               IN  /\ h.resp = d.response
                   /\ (Len(dispatches) = 2 /\ pc = "idle") =>
                         (h.customers = customers /\ h.tickets = tickets) )

\* C26 happens: "delete_customer" was refused and the get_customer dispatch
\* after it returned the customer.
C26_Witness ==
    /\ Len(dispatches) = 2
    /\ pc = "idle"
    /\ dispatches[1].to = "data"
    /\ dispatches[1].action = "delete_customer"
    /\ dispatches[1].response = Failure(DataAgentName, "Unknown action: delete_customer")
    /\ dispatches[2].action = "get_customer"
    /\ dispatches[2].response.success
    /\ dispatches[2].response.result.id = 1


Complex == analysis # <<>> /\ analysis.complexity = "complex"

\* The data request of each of the three direct branches of
\* handle_complex_query, by the condition of the branch.
HistoryBranch == (In("ticket", query_lower) \/ In("history", query_lower))
                 /\ Truthy(analysis.customer_id)

ListBranch == In("list", query_lower) /\ In("customer", query_lower)

ShowBranch == In("show", query_lower) /\ In("customer", query_lower)
              /\ Truthy(analysis.customer_id)

DirectBranchRequest ==
    CASE HistoryBranch ->
            [to |-> "data", action |-> "get_history",
             parameters |-> [customer_id |-> analysis.customer_id[1]]]
      [] ~HistoryBranch /\ ListBranch ->
            [to |-> "data", action |-> "list_customers",
             parameters |-> [status |-> IF In("active", query_lower) THEN "active"
                                        ELSE IF In("disabled", query_lower) THEN "disabled"
                                        ELSE "",
                             limit |-> 10]]
      [] ~HistoryBranch /\ ~ListBranch /\ ShowBranch ->
            [to |-> "data", action |-> "get_customer",
             parameters |-> [customer_id |-> analysis.customer_id[1]]]
      [] OTHER -> <<>>

NegotiationsLogged(log) == Logged("Starting agent negotiation", log)

\* C27: the complex strategy runs exactly one of four branches, the first
\* whose condition holds in the order ticket/history lookup (with a customer
\* id), customer listing, single-customer lookup (with a customer id),
\* negotiation: each of the three direct branches issues exactly one dispatch,
\* to the data agent, for the whole call, and starts no negotiation; only the
\* fourth starts the negotiation, once.
C27_ComplexRunsFirstMatchingBranch ==
    /\ []( (Complex /\ lastCall = "process_query" /\ DirectBranchRequest # <<>>)
              => Issued = <<DirectBranchRequest>> )
    /\ []( (Complex /\ lastCall = "process_query" /\ DirectBranchRequest = <<>>)
              => /\ Negotiating
                 /\ \A i \in 1..Len(Issued) :
                        Issued[i].action \notin {"get_history", "list_customers"} )
    /\ [][ (CallStarts /\ analysis'.complexity = "complex") =>
              NegotiationsLogged(coordination_log') =
                  NegotiationsLogged(coordination_log)
                  + (IF Negotiating' THEN 1 ELSE 0) ]_vars

\* C27 happens: a query that asks to list the customers of customer 3's kind
\* and to show them ran the listing branch alone, with one dispatch.
C27_Witness ==
    /\ Complex
    /\ CallEnded
    /\ ~HistoryBranch /\ ListBranch /\ ShowBranch
    /\ Len(dispatches) = 1
    /\ dispatches[1].action = "list_customers"


\* C28: when the multi-step strategy runs and the condition of none of its
\* cases holds (a query with a sequencing keyword and no customer id that is
\* neither analytical nor about active customers with tickets, say), the call
\* issues no dispatch and returns "Query processed.".
C28_NoCaseNoDispatch ==
    (MultiStep /\ FirstCase = 0) =>
        /\ Issued = <<>>
        /\ pc = "idle"
        /\ outcome = "returned"
        /\ response = "Query processed."

\* C28 happens: "I want to upgrade and also check my billing" was answered
\* with the acknowledgement, by the multi-step strategy, without a dispatch.
C28_Witness ==
    /\ CallEnded
    /\ query = "I want to upgrade and also check my billing"
    /\ MultiStep
    /\ FirstCase = 0
    /\ Logged("Handling multi-step query", coordination_log) >= 1
    /\ dispatches = <<>>
    /\ response = "Query processed."


\* How many times the capability stands in the intents of the analysis.
TimesRequired(capability) ==
    Cardinality({i \in 1..Len(analysis.intents) : analysis.intents[i] = capability})

\* The analytical rule is the one that classified the query: the two
\* branches before it in its if/elif chain did not fire.
ClassifiedByRule7 == Analyzed /\ Rule7 /\ ~Rule5 /\ ~Rule6

\* C29: whenever a query is classified multi-step by the rule ("status" or
\* "what is") and "ticket" and "priority", the intents of the analysis hold
\* "data" and "support", each exactly once, whether or not can_handle of the
\* two agents had detected them.
C29_AnalyticalRuleRequiresBoth ==
    ClassifiedByRule7 =>
        /\ analysis.complexity = "multi-step"
        /\ TimesRequired("data") = 1
        /\ TimesRequired("support") = 1
        /\ Len(analysis.intents) = 2

\* C29 happens: no keyword of the data agent stands in the query, and "data"
\* was added after "support".
C29_Witness ==
    /\ ClassifiedByRule7
    /\ ~analysis.needs_data_agent
    /\ analysis.intents = <<"support", "data">>


\* The entry of the log is the entry x, stamped.
IsEntry(entry, x) ==
    /\ entry.kind = x.kind
    /\ entry.from = x.from
    /\ entry.to = x.to
    /\ entry.message = x.message

\* The A2A entries of the log that route_to_data_agent and
\* route_to_support_agent appended: all but the question the negotiation asks
\* the support agent before its first dispatch.
RoutingEntries(log) ==
    {i \in 1..Len(log) :
        log[i].kind = "A2A" /\ log[i].message # "Can you handle this query?"}

\* A request is with the provider, or its response on the way back.
InFlight == pc \in {"waiting", "replied"}

\* C30: with one query in flight, each dispatch appends exactly two A2A
\* entries to the trace: the outbound entry, from the router to the provider,
\* is the last entry when the provider is invoked; the provider appends
\* nothing; the inbound entry, from the provider to the router, is appended
\* right after the outbound one when the response is back, and says Success
\* exactly when the response has success True.
C30_OutboundThenInboundPerDispatch ==
    /\ [](Cardinality(RoutingEntries(coordination_log))
            = 2 * completed + (IF InFlight THEN 1 ELSE 0))
    /\ [](InFlight =>
            /\ Len(inflight) = 1
            /\ coordination_log # <<>>
            /\ IsEntry(coordination_log[Len(coordination_log)], Outbound(inflight[1])))
    /\ [][ /\ (pc = "waiting") => coordination_log' = coordination_log
           /\ (pc = "replied") =>
                 /\ Len(coordination_log') > Len(coordination_log)
                 /\ SubSeq(coordination_log', 1, Len(coordination_log)) = coordination_log
                 /\ LET inbound == coordination_log'[Len(coordination_log) + 1]
                    IN  /\ inbound.kind = "A2A"
                        /\ inbound.from = AgentName(inflight[1].to)
                        /\ inbound.to = RouterName
                        /\ inbound.message \in {"Response: Success", "Response: Failed"}
                        /\ inbound.message = "Response: Success"
                              <=> reply[1].resp.success ]_vars

\* C30 happens: the log holds an outbound entry followed by "Response:
\* Failed" and, later, one followed by "Response: Success", for the two
\* dispatches of a call that has ended.
C30_Witness ==
    /\ CallEnded
    /\ Len(dispatches) = 2
    /\ ~dispatches[1].response.success
    /\ dispatches[2].response.success
    /\ \E i, j \in 1..Len(coordination_log) - 1 :
          /\ i + 1 < j
          /\ IsEntry(coordination_log[i], Outbound(dispatches[1]))
          /\ coordination_log[i + 1].message = "Response: Failed"
          /\ IsEntry(coordination_log[j], Outbound(dispatches[2]))
          /\ coordination_log[j + 1].message = "Response: Success"


\* The request of the first dispatch of a completed call (<<>>: it issued none).
FirstRequestOf(call) ==
    IF call.dispatches = <<>> THEN <<>>
    ELSE [to |-> call.dispatches[1].to, action |-> call.dispatches[1].action,
          parameters |-> call.dispatches[1].parameters]

\* C31: process_query never removes or alters an entry of the log: in every
\* step of a call the log before is a prefix of the log after, so the entries
\* of successive calls accumulate until clear_coordination_log; and the router
\* keeps nothing else from one call to the next: between calls no request,
\* response or strategy local is left, and a later call of the same query
\* is analysed the same and sets out with the same request.
C31_TraceOnlyGrowsNothingElseKept ==
    /\ [][ lastCall' = "process_query" =>
              /\ Len(coordination_log') >= Len(coordination_log)
              /\ SubSeq(coordination_log', 1, Len(coordination_log)) = coordination_log
         ]_vars
    /\ [](pc = "idle" => frame = <<>> /\ inflight = <<>> /\ reply = <<>>)
    /\ [][ CallStarts => analysis' = analyze_query(query) ]_vars
    /\ [](\A i, j \in 1..Len(calls) :
              calls[i].query = calls[j].query =>
                  FirstRequestOf(calls[i]) = FirstRequestOf(calls[j]))

\* C31 happens: two calls that dispatched ended with no clearing in between,
\* and the log holds the entries of both, the first call's first.
C31_Witness ==
    /\ CallEnded
    /\ Len(calls) = 2
    /\ calls[1].dispatches # <<>>
    /\ calls[2].dispatches # <<>>
    /\ Logged("NEW QUERY: ", coordination_log) = 2
    /\ Logged("Query processing complete", coordination_log) = 2
    /\ coordination_log[2].message = "NEW QUERY: " \o query


\* The call ran the help case of the multi-step strategy and returned.
HelpCaseReturned ==
    /\ CallEnded
    /\ outcome = "returned"
    /\ MultiStep
    /\ FirstCase = 7

\* C32: in the help case of the multi-step strategy, when get_customer fails
\* no request goes to the support agent and the text is "Error: " and the
\* error of that failure; when get_customer succeeds and the support dispatch
\* fails, the text is the fallback "I'm here to help. Please provide more
\* details.", with no greeting and no error text in it.
C32_HelpCaseFailures ==
    HelpCaseReturned =>
        /\ Len(dispatches) >= 1
        /\ ~dispatches[1].response.success =>
              /\ Len(dispatches) = 1
              /\ dispatches[1].to = "data"
              /\ response = "Error: " \o dispatches[1].response.error
        /\ (dispatches[1].response.success /\ Len(dispatches) >= 2
              /\ ~dispatches[2].response.success) =>
              /\ Len(dispatches) = 2
              /\ response = "I'm here to help. Please provide more details."
              /\ ~In("Hello", response)
              /\ ~In("Error", response)
              /\ ~In(dispatches[2].response.error, response)

\* C32 happens: the customer was fetched, the support agent failed, and the
\* fallback was returned.
C32_Witness ==
    /\ HelpCaseReturned
    /\ Len(dispatches) = 2
    /\ dispatches[1].response.success
    /\ dispatches[2].to = "support"
    /\ ~dispatches[2].response.success
    /\ response = "I'm here to help. Please provide more details."


\* The call negotiated between the agents and returned a text.
NegotiationReturned == Negotiating /\ CallEnded /\ outcome = "returned"

\* The dispatches of the call to the support agent, and those to the data
\* agent that succeeded.
SupportDispatches == {i \in 1..Len(dispatches) : dispatches[i].to = "support"}

FetchedCustomers ==
    {i \in 1..Len(dispatches) :
        dispatches[i].to = "data" /\ dispatches[i].response.success}

\* The support dispatch whose solution is shown: the one made with the
\* customer's record when there is one, the first otherwise.
ShownSupport ==
    IF \E i \in SupportDispatches : "customer_data" \in DOMAIN dispatches[i].parameters
    THEN CHOOSE i \in SupportDispatches : "customer_data" \in DOMAIN dispatches[i].parameters
    ELSE 1

CustomerSummary(customer) == "Customer: " \o customer.name \o " (" \o customer.status \o ")"

\* C33: the text of a negotiated complex query is the customer summary,
\* there exactly when the get_customer dispatch succeeded, followed by one
\* solution of the support agent: that of the second, context-enriched
\* response when that dispatch was made, that of the first otherwise; with no
\* dispatch to the support agent the text is "I'm working on your request.".
C33_NegotiatedTextIsSummaryThenSolution ==
    NegotiationReturned =>
        /\ SupportDispatches = {} =>
              (dispatches = <<>> /\ response = "I'm working on your request.")
        /\ SupportDispatches # {} =>
              /\ Cardinality(FetchedCustomers) <= 1
              /\ dispatches[ShownSupport].response.success
              /\ response =
                   (IF FetchedCustomers # {}
                    THEN CustomerSummary(
                             dispatches[CHOOSE i \in FetchedCustomers : TRUE].response.result)
                         \o "\n"
                    ELSE "")
                   \o dispatches[ShownSupport].response.result.solution

\* C33 happens: the customer was fetched and the support agent asked again
\* with the record; the text shows the summary and the solution of the second
\* response.
C33_Witness ==
    /\ NegotiationReturned
    /\ Len(dispatches) = 3
    /\ ShownSupport = 3
    /\ "customer_name" \in DOMAIN dispatches[3].response.result
    /\ response = CustomerSummary(dispatches[2].response.result) \o "\n"
                  \o dispatches[3].response.result.solution


\* The cap of the loop of the fan-out case that is running.
FanOutCap == IF FirstCase = 1 THEN 10 ELSE 5

\* The history dispatches of the call that failed.
FailedHistories ==
    {i \in 2..Len(dispatches) :
        dispatches[i].action = "get_history" /\ ~dispatches[i].response.success}

\* C34: in the analytical and the active-customers case a failed get_history
\* for one customer does not end the loop: the history of every customer
\* after it within the cap is still asked for, in list order, and the
\* customer whose history failed has no line in the text, nor has the error.
C34_FailedHistoryDoesNotEndLoop ==
    (MultiStep /\ FirstCase \in {1, 2} /\ lastCall = "process_query") =>
        \A i \in FailedHistories :
            /\ i < 1 + Min(FanOutCap, Len(Returned)) =>
                  /\ Len(Issued) > i
                  /\ Issued[i + 1] = [to |-> "data", action |-> "get_history",
                                      parameters |-> [customer_id |-> Returned[i].id]]
            /\ CallEnded =>
                  /\ outcome = "returned"
                  /\ Len(dispatches) = 1 + Min(FanOutCap, Len(Returned))
                  /\ ~In(Returned[i - 1].name \o ":", response)
                  /\ ~In(dispatches[i].response.error, response)

\* C34 happens: in the active-customers case the history of the second
\* customer failed, that of the fifth was fetched all the same, and the
\* customers before and after the second are reported.
C34_Witness ==
    /\ MultiStep /\ FirstCase = 2 /\ CallEnded
    /\ FailedHistories = {3}
    /\ Len(dispatches) = 6
    /\ dispatches[6].response.success
    /\ In("- " \o Returned[1].name \o ":", response)
    /\ In("- " \o Returned[4].name \o ":", response)
    /\ ~In(Returned[2].name \o ":", response)


\* The entries of the log the caller t appended, by their place in it.
EntriesOf(t) ==
    {i \in 1..Len(coordination_log) : coordination_log[i].ts \in threads[t].written}

\* Those of them that route_to_*_agent wrote before handle_request, and after.
OutboundOf(t) ==
    {i \in EntriesOf(t) :
        /\ coordination_log[i].kind = "A2A"
        /\ coordination_log[i].from = RouterName
        /\ coordination_log[i].message # "Can you handle this query?"}

InboundOf(t) ==
    {i \in EntriesOf(t) :
        coordination_log[i].kind = "A2A" /\ coordination_log[i].to = RouterName}

\* In the log, the outbound and inbound entries of the query of caller t pair
\* up: every inbound entry stands right after an outbound entry of the same
\* query, and every outbound entry right before an inbound one, but for the
\* last entry of a caller whose request is with the provider.
Paired(t) ==
    /\ \A i \in InboundOf(t) : (i - 1) \in OutboundOf(t)
    /\ \A i \in OutboundOf(t) :
          \/ (i + 1) \in InboundOf(t)
          \/ /\ Dispatching(threads[t])
             /\ \A j \in EntriesOf(t) : j <= i

\* C35: the log is not safe when two callers use one router at the same
\* time, each clearing the log and then processing its query: a
\* clear_coordination_log of one caller discards every entry, those the other
\* has recorded for its query too, the entries of the two queries come to lie
\* between each other, and the outbound and inbound entries of a query then
\* no longer pair up; they fail to pair up only for a query during whose
\* dispatch the other caller was at the log.
C35_ConcurrentCallersBreakPairing ==
    /\ [][ \A t \in Threads :
              (threads[t].pc = "new" /\ threads'[t].pc = "cleared") =>
                  /\ coordination_log' = <<>>
                  /\ \A u \in Threads : EntriesOf(u)' = {} ]_vars
    /\ [](\A t \in Threads : ~Paired(t) => threads[t].disturbed)

\* C35 happens: the call of caller 1 has returned; entries it recorded are
\* gone from the log, an entry of caller 2 lies between two of its entries,
\* and an inbound entry of its query has no outbound entry before it.
C35_Witness ==
    /\ threads # <<>>
    /\ threads[1].pc = "done"
    /\ threads[1].outcome = "returned"
    /\ Cardinality(EntriesOf(1)) < Cardinality(threads[1].written)
    /\ \E i, k \in EntriesOf(1) : \E j \in EntriesOf(2) : i < j /\ j < k
    /\ \E i \in InboundOf(1) : (i - 1) \notin OutboundOf(1)
    /\ ~Paired(1)


\* C36: the multi-step strategy returns "Query processed." only when the
\* condition of none of its cases held: whenever a case ran, also when its
\* first dispatch failed, the text returned holds a line of that case.
C36_AcknowledgementOnlyWithoutCase ==
    (MultiStep /\ CallEnded /\ outcome = "returned" /\ FirstCase # 0) =>
        /\ response # "Query processed."
        /\ response # ""

\* The same for every case but the active-customers one with a failed
\* get_premium_customers dispatch.
C36_ButForFailedActiveCustomers ==
    (MultiStep /\ CallEnded /\ outcome = "returned" /\ FirstCase # 0
       /\ ~(FirstCase = 2 /\ ~dispatches[1].response.success)) =>
        /\ response # "Query processed."
        /\ response # ""


\* The provider is about to handle an update_customer request of one of the
\* three update cases of the multi-step strategy.
UpdateCaseDispatch ==
    /\ pc = "waiting"
    /\ inflight[1].to = "data"
    /\ inflight[1].action = "update_customer"
    /\ frame.strategy = "multi-step"
    /\ frame.label \in {"email_update", "phone_update", "email_change"}

\* C37: the records of the providers change only through an update_customer
\* dispatch of one of the update cases of the multi-step strategy: every
\* other step of every call leaves the customers and the tickets as they
\* were, the tickets are never changed, and no call dispatches create_ticket.
C37_OnlyUpdateCasesChangeRecords ==
    /\ [][ /\ customers' # customers =>
                /\ UpdateCaseDispatch
                /\ reply'[1].resp.success
           /\ tickets' = tickets ]_vars
    /\ [](\A i \in 1..Len(Issued) :
             /\ Issued[i].action # "create_ticket"
             /\ Issued[i].action = "update_customer" =>
                   (MultiStep /\ FirstCase \in {3, 4, 5}))

\* C37 happens: a call of the help case, with a dispatch to each provider,
\* has ended after an earlier call, and the records are those of the start.
C37_Witness ==
    /\ CallEnded
    /\ Len(calls) = 2
    /\ MultiStep /\ FirstCase = 7
    /\ Len(dispatches) = 2
    /\ dispatches[2].to = "support"
    /\ dispatches[2].response.success
    /\ customers \in SeedCustomers
    /\ tickets = SeedTickets


\* Parameters of update_customer requests that cannot take effect: a customer
\* that is in no seed table, or updates without any of the fields name,
\* email, phone, status.
RefusedUpdates ==
    { [customer_id |-> 99, updates |-> [email |-> "nobody@test.org"]],
      [customer_id |-> 99, updates |-> [phone |-> "5551234"]],
      [customer_id |-> 0,  updates |-> [status |-> "disabled"]],
      [customer_id |-> 2,  updates |-> [tier |-> "gold"]],
      [customer_id |-> 2,  updates |-> [id |-> 7, created_at |-> 0]],
      [customer_id |-> 2,  updates |-> <<>>] }

CustomerIds == {customers[i].id : i \in 1..Len(customers)}

\* C38: an update_customer dispatch that names a customer that does not
\* exist, or whose updates hold none of the fields name, email, phone,
\* status, is answered with success False and leaves every customer record as
\* it was; the router then reports the failure in its text and shows no
\* refreshed record.
C38_RefusedUpdateChangesNothing ==
    /\ \A p \in RefusedUpdates :
          LET h == handle_request(Request("data", "update_customer", p),
                                  customers, tickets, clock, FALSE)
          IN  /\ ~h.resp.success
              /\ h.resp.error = "Failed to update customer " \o ToString(p.customer_id)
              /\ h.customers = customers
              /\ h.tickets = tickets
    /\ \A i \in 1..Len(dispatches) :
          (dispatches[i].action = "update_customer"
             /\ dispatches[i].parameters.customer_id \notin CustomerIds) =>
              ~dispatches[i].response.success
    /\ (MultiStep /\ CallEnded /\ outcome = "returned" /\ dispatches # <<>>
          /\ dispatches[1].action = "update_customer"
          /\ ~dispatches[1].response.success) =>
              /\ In(dispatches[1].response.error, response)
              /\ LitAt("Error ", response, 1)
              /\ ~In("[ok]", response)
              /\ ~In("Updated Customer Information", response)
              /\ ~In("Name: ", response)

\* C38 happens: "Update customer 99 phone to 5551234" was refused by the data
\* agent, the customers are those of the start and the text reports it.
C38_Witness ==
    /\ CallEnded
    /\ query = "Update customer 99 phone to 5551234"
    /\ Len(dispatches) = 1
    /\ dispatches[1].exception = <<"ValueError", "Failed to update customer 99">>
    /\ customers \in SeedCustomers
    /\ response = "Error updating phone: Failed to update customer 99"


\* The analysis of the query, had no customer id been extracted.
WithoutId == [analysis EXCEPT !.customer_id = None]

\* C39: a query whose extracted customer id is 0 is handled by every
\* strategy as a query without a customer id: each strategy starts and goes
\* on as it does with no id, and no request with customer_id 0 is ever issued.
C39_IdZeroIsNoId ==
    /\ \A i \in 1..Len(Issued) :
          "customer_id" \in DOMAIN Issued[i].parameters =>
              Issued[i].parameters.customer_id # 0
    /\ (analysis # <<>> /\ analysis.customer_id = Some(0)) =>
          /\ handle_simple_query(query, analysis) = handle_simple_query(query, WithoutId)
          /\ handle_complex_query(query, analysis) = handle_complex_query(query, WithoutId)
          /\ handle_multi_step_query(query, analysis)
                = handle_multi_step_query(query, WithoutId)
          /\ pc = "replied" =>
                resume(frame, query, analysis, reply[1].resp)
                    = resume(frame, query, WithoutId, reply[1].resp)

\* C39 happens: in the negotiation for "I'm customer 0 with a billing
\* problem" the support agent asked for the customer's context, and with the
\* id 0 no get_customer followed.
C39_Witness ==
    /\ CallEnded
    /\ query = "I'm customer 0 with a billing problem"
    /\ analysis.customer_id = Some(0)
    /\ Negotiating
    /\ Len(dispatches) = 1
    /\ dispatches[1].to = "support"
    /\ dispatches[1].response.success
    /\ dispatches[1].response.result.needs_customer_context


\* C40: in every analysis analyze_query returns, needs_coordination is true
\* exactly when the complexity is not "simple".
C40_CoordinationIffNotSimple ==
    Analyzed => (analysis.needs_coordination <=> analysis.complexity # "simple")

\* C40 happens: a query with one intent that the listing rule alone made
\* complex needs coordination.
C40_Witness ==
    /\ Analyzed
    /\ Len(analysis.intents) = 1
    /\ Rule4 /\ ~(Rule2 \/ Rule3 \/ Rule5 \/ Rule6 \/ Rule7)
    /\ analysis.complexity = "complex"
    /\ analysis.needs_coordination

=============================================================================
